---- MODULE Spec2Model ----
(***************************************************************************)
(* PyCurveBug: the acquisition loop of CurveTracerApp (update / acquire),  *)
(* the per-variant sample buffers with the active series, the excitation   *)
(* mode state machine and the input handlers that change them.             *)
(*                                                                         *)
(* The buffers hold the decoded samples themselves: a stored frame is five *)
(* sequences of 336 integers, compared by value.                           *)
(* zoom_level and the pan offsets are Python floats; they are modelled as   *)
(* exact fractions <<numerator, denominator>> in lowest terms.             *)
(* Spec is the acquisition loop with the keys that steer it; SpecAlt is    *)
(* the loop under mode changes alone, with the Alternating commands        *)
(* logged; SpecDecode is frame decoding over a sweep of all 16-bit words;  *)
(* SpecWire is one tick of acquire() step by step, SpecWireLive the same   *)
(* with fairness; SpecConnect is connect() with the port probe; SpecView   *)
(* is the view (scroll, fit-to-window, reset-view) over acquired data.     *)
(***************************************************************************)
EXTENDS Integers, Sequences, FiniteSets, TLC

VARIABLES
    serial_open,         \* self.serial is not None and self.serial.is_open
    std,                 \* the five *_std buffers
    weak,                \* the five *_weak buffers
    active,              \* self.ch1, self.ch2, self.ch1_voltage, self.ch2_voltage, self.drive_voltage
    frame_count,
    paused,
    single_channel,
    auto_scale,
    excitation_mode,     \* 0 = Strong (4.7K, 'T'), 1 = Weak (100K, 'W'), 2 = Alternating
    alt_use_weak,
    last_mode_was_weak,
    zoom_level,
    pan_offset_x,
    pan_offset_y,
    settings_active,     \* self.settings_window.active
    picker_active,       \* self.settings_window.color_picker.active
    last_op,             \* what the latest handler call did (observation, not program state)
    alt_log,             \* the commands decided while Alternating, oldest first (observation)
    rx,                  \* the bytes the read loop of the latest acquire() ended with (observation)
    pc,                  \* where acquire() stands within the tick, "idle" between ticks
    calls,               \* the serial calls acquire() made in this tick, in order (observation)
    data_len,            \* len(data) in the read loop
    clock,               \* time.time() - start in the read loop, in TimeUnits of a second
    in_waiting,          \* self.serial.in_waiting
    ports,               \* serial.tools.list_ports.comports(), each port with how it behaves
    direct,              \* how the ports connect() opens behave, and the runtime's finalizers
    serial_port,         \* self.config.get('serial_port')
    connect_op,          \* what connect() did (observation)
    dragging,
    drag_start_offset,   \* <<pan_offset_x, pan_offset_y>> at the press or the latest drag, << >> for None
    buttons,             \* the mouse buttons the user holds down
    tab,                 \* self.settings_window.tab
    editing_color,       \* self.settings_window.editing_color, "none" for None
    picker_color,        \* self.settings_window.color_picker.color
    original_color,      \* self.settings_window.color_picker.original_color
    picker_dragging,     \* self.settings_window.color_picker.dragging, -1 or the slider
    swatches,            \* the colours of self.settings_window.color_swatches
    colors,              \* self.config.get('colors'), for the swatches of the model
    config_file,         \* what load_config() finds in the configuration file
    config,              \* ConfigManager.config, for the keys of the model
    draw_args,           \* the arguments of the latest _draw_trace call
    points               \* the pixel points _draw_trace built from them

vars == <<serial_open, std, weak, active, frame_count, paused, single_channel,
          auto_scale, excitation_mode, alt_use_weak, last_mode_was_weak,
          zoom_level, pan_offset_x, pan_offset_y, settings_active,
          picker_active, last_op, alt_log, rx, pc, calls, data_len, clock,
          in_waiting, ports, direct, serial_port, connect_op, dragging,
          drag_start_offset, buttons, tab, editing_color, picker_color, original_color,
          picker_dragging, swatches, colors, config_file, config, draw_args, points>>

store == <<std, weak, active, frame_count, last_mode_was_weak>>
view == <<zoom_level, pan_offset_x, pan_offset_y>>
flags == <<paused, single_channel, auto_scale>>
settings == <<settings_active, picker_active>>
wire == <<rx, pc, calls, data_len, clock, in_waiting>>
link == <<ports, direct, serial_port, connect_op>>
mouse == <<dragging, drag_start_offset, buttons>>
dialog == <<tab, editing_color, picker_color, original_color, picker_dragging, swatches, colors>>
conf == <<config_file, config>>
drawing == <<draw_args, points>>
aux == <<mouse, dialog, conf, drawing>>

-----------------------------------------------------------------------------
(* Program constants *)

FRAME_BYTES == 2016
FRAME_WORDS == 1008
WORD_MASK == 4096        \* val & 0x0FFF  ==  val % 4096
ADC_MAX == 2800

(* Bounds of the model *)

NumFrames == 2           \* distinct 2016-byte responses the device can give
MaxFrameCount == 3       \* successful acquisitions in one run
MaxZoomOut == 0          \* scroll-down steps below 1.0 that are explored
MaxZoomIn == 1           \* scroll-up steps above 1.0 that are explored
MaxAltLog == 5           \* Alternating commands logged in one run
NumSweepFrames == 66     \* responses of the word sweep: 66 * 1008 words cover all 65536
TimeUnits == 4           \* clock steps in one second
ChunkBytes == 700        \* bytes of a part of a response, which arrives whole or in parts
MaxZoomDen == 30000      \* largest denominator of zoom_level from which scrolling is explored
MaxPorts == 3            \* serial ports the host enumerates at most
MaxInWaiting == 2100     \* bytes the serial input buffer holds at most

-----------------------------------------------------------------------------
(* The device: the bytes it answers a command with. *)

\* Word k (0-based) of the i-th response, as the 16-bit value on the wire.
\* Response 1 is the all-2048 frame; the others carry bits above bit 11.
DeviceWord(i, k) ==
    IF i = 1 THEN 2048
    ELSE ((k % 3) * 4099 + i * 61441 + (k \div 3) * i) % 65536

\* The 2016 bytes of the i-th response, little-endian words.
DeviceFrame(i) ==
    [b \in 1..FRAME_BYTES |->
        IF b % 2 = 1 THEN DeviceWord(i, (b - 1) \div 2) % 256
                     ELSE DeviceWord(i, (b - 1) \div 2) \div 256]

Frames == {DeviceFrame(i) : i \in 1..NumFrames}
FirstFrame == DeviceFrame(1)

\* What the read loop can have collected when it times out: fewer than 2016 bytes.
ShortReads == {SubSeq(DeviceFrame(1), 1, n) : n \in {0, FRAME_BYTES - 1}}

Received == Frames \cup ShortReads

\* The word sweep: response i (0-based) carries the 16-bit words i * 1008 + k,
\* so that the responses together carry every 16-bit word.
SweepWord(i, k) == (i * FRAME_WORDS + k) % 65536

SweepFrame(i) ==
    [b \in 1..FRAME_BYTES |->
        IF b % 2 = 1 THEN SweepWord(i, (b - 1) \div 2) % 256
                     ELSE SweepWord(i, (b - 1) \div 2) \div 256]

SweepFrames == {SweepFrame(i) : i \in 0..(NumSweepFrames - 1)}

\* The response with the widest traces 12-bit samples allow: the drive
\* voltage and the channel 1 voltage alternate between 0 and 4095 in
\* opposition, so that the channel 1 current runs from -4095 to 4095.
ExtremeWord(k) ==
    IF k % 3 = 0 THEN (IF (k \div 3) % 2 = 0 THEN 0 ELSE 4095)
    ELSE IF k % 3 = 1 THEN (IF (k \div 3) % 2 = 0 THEN 4095 ELSE 0)
    ELSE 2048

ExtremeFrame ==
    [b \in 1..FRAME_BYTES |->
        IF b % 2 = 1 THEN ExtremeWord((b - 1) \div 2) % 256
                     ELSE ExtremeWord((b - 1) \div 2) \div 256]

\* The responses of the device where the view is studied.
ViewFrames == {FirstFrame, ExtremeFrame}

\* Every complete response, and every response, of the model's device.
FullFrames == Frames \cup SweepFrames \cup ViewFrames
Responses == FullFrames \cup ShortReads

-----------------------------------------------------------------------------
(* Frame decoding, acquire() lines 1397-1411 *)

\* Mutant: the words are stored as read, without the mask.
ParseValues_NoMask(data) ==
    [k \in 1..(Len(data) \div 2) |-> data[2 * k - 1] + 256 * data[2 * k]]

\* struct.unpack('<H', data[i:i + 2])[0] & 0x0FFF for i in range(0, len(data), 2)
ParseValues(data) ==
    [k \in 1..(Len(data) \div 2) |-> (data[2 * k - 1] + 256 * data[2 * k]) % WORD_MASK]

\* Mutant: the three streams are taken as three consecutive blocks.
Slice3_Blocks(values, s) ==
    [i \in 1..((Len(values) - s + 2) \div 3) |-> values[s * (Len(values) \div 3) + i]]

\* values[s::3], s the 0-based start
Slice3(values, s) ==
    [i \in 1..((Len(values) - s + 2) \div 3) |-> values[s + 3 * (i - 1) + 1]]

Current(drive_voltage, raw) ==
    [i \in 1..Len(drive_voltage) |-> drive_voltage[i] - raw[i]]

EmptyBuffers ==
    [ch1 |-> << >>, ch2 |-> << >>, ch1_voltage |-> << >>, ch2_voltage |-> << >>,
     drive_voltage |-> << >>]

\* The five series computed from one response.
Decode(data) ==
    LET values == ParseValues(data)
        drive == Slice3(values, 0)
        ch1_raw == Slice3(values, 1)
        ch2_raw == Slice3(values, 2)
    IN  [ch1 |-> Current(drive, ch1_raw),
         ch2 |-> Current(drive, ch2_raw),
         ch1_voltage |-> ch1_raw,
         ch2_voltage |-> ch2_raw,
         drive_voltage |-> drive]

-----------------------------------------------------------------------------
(* Fractions for zoom_level and the pan offsets *)

Min(a, b) == IF a < b THEN a ELSE b

RECURSIVE Gcd(_, _)
Gcd(a, b) == IF b = 0 THEN a ELSE Gcd(b, a % b)

Abs(n) == IF n < 0 THEN -n ELSE n

\* n / d in lowest terms, d > 0
Frac(n, d) == <<n \div Gcd(Abs(n), d), d \div Gcd(Abs(n), d)>>
FracLess(p, q) == p[1] * q[2] < q[1] * p[2]
FracMax(p, q) == IF FracLess(p, q) THEN q ELSE p
FracMin(p, q) == IF FracLess(q, p) THEN q ELSE p
FracAdd(p, q) == Frac(p[1] * q[2] + q[1] * p[2], p[2] * q[2])
FracSub(p, q) == Frac(p[1] * q[2] - q[1] * p[2], p[2] * q[2])
FracDiv(p, q) == Frac(p[1] * q[2], p[2] * q[1])          \* q > 0
FracHalf(p) == Frac(p[1], 2 * p[2])

RECURSIVE Pow(_, _)
Pow(b, e) == IF e = 0 THEN 1 ELSE b * Pow(b, e - 1)

-----------------------------------------------------------------------------
(* Command decision, acquire() lines 1367-1381 *)

\* Mutant: the Alternating branch forgets to flip alt_use_weak.
DecideCommand_NoFlip(mode, alt) ==
    IF mode = 0 THEN [command |-> "T", store_as_weak |-> FALSE, alt |-> alt]
    ELSE IF mode = 1 THEN [command |-> "W", store_as_weak |-> TRUE, alt |-> alt]
    ELSE IF alt THEN [command |-> "W", store_as_weak |-> TRUE, alt |-> alt]
    ELSE [command |-> "T", store_as_weak |-> FALSE, alt |-> alt]

\* Mutant: Weak mode sends 'W' but files the frame under Strong.
DecideCommand_WeakAsStd(mode, alt) ==
    IF mode = 0 THEN [command |-> "T", store_as_weak |-> FALSE, alt |-> alt]
    ELSE IF mode = 1 THEN [command |-> "W", store_as_weak |-> FALSE, alt |-> alt]
    ELSE IF alt THEN [command |-> "W", store_as_weak |-> TRUE, alt |-> ~alt]
    ELSE [command |-> "T", store_as_weak |-> FALSE, alt |-> ~alt]

\* Mutant: the Alternating branch tests the flag the wrong way round.
DecideCommand_Inverted(mode, alt) ==
    IF mode = 0 THEN [command |-> "T", store_as_weak |-> FALSE, alt |-> alt]
    ELSE IF mode = 1 THEN [command |-> "W", store_as_weak |-> TRUE, alt |-> alt]
    ELSE IF ~alt THEN [command |-> "W", store_as_weak |-> TRUE, alt |-> ~alt]
    ELSE [command |-> "T", store_as_weak |-> FALSE, alt |-> ~alt]

\* (command, store_as_weak, alt_use_weak afterwards)
DecideCommand(mode, alt) ==
    IF mode = 0 THEN [command |-> "T", store_as_weak |-> FALSE, alt |-> alt]
    ELSE IF mode = 1 THEN [command |-> "W", store_as_weak |-> TRUE, alt |-> alt]
    ELSE IF alt THEN [command |-> "W", store_as_weak |-> TRUE, alt |-> ~alt]
    ELSE [command |-> "T", store_as_weak |-> FALSE, alt |-> ~alt]

\* Observation of one handler call: its name, the command and store_as_weak
\* acquire() decided (command "none" if it decided none), whether serial.write
\* was called, the exception the transport raised ("none" if none), the bytes
\* collected by the read loop (-1 if it did not run) and the value acquire()
\* returned.
Op(name, d, wrote, fault, received, ok) ==
    [name |-> name, command |-> d.command, store_as_weak |-> d.store_as_weak,
     wrote |-> wrote, fault |-> fault, received |-> received, ok |-> ok]

Idle(name) ==
    Op(name, [command |-> "none", store_as_weak |-> FALSE], FALSE, "none", -1, FALSE)

-----------------------------------------------------------------------------
(* connect() and auto_detect_port(), lines 1309-1359 *)

\* How a port behaves when the probe tries it: serial.Serial raises
\* ("open_fails"), a call after the open raises ("io_fails"), or it opens and
\* sends, within 1.0 s of the 'T' command, no byte ("silent"), 2015 bytes
\* ("short"), 2016 bytes ("device") or 4032 bytes ("chatty").
PortKinds == {"open_fails", "io_fails", "silent", "short", "device", "chatty"}

\* How connect()'s own open of a port goes: serial.Serial and
\* reset_input_buffer succeed ("ok"), serial.Serial raises ("open_fails"), or
\* serial.Serial succeeds and reset_input_buffer raises ("reset_fails").
OpenKinds == {"ok", "open_fails", "reset_fails"}

\* The bytes a port that opens sends within 1.0 s of the command.
Sent(kind) ==
    IF kind = "short" THEN FRAME_BYTES - 1
    ELSE IF kind = "device" THEN FRAME_BYTES
    ELSE IF kind = "chatty" THEN 2 * FRAME_BYTES
    ELSE 0

\* lines 1347-1350: len(data) when the probe's read loop ends; each read takes
\* min(in_waiting, 2016 - len(data))
Collected(kind) == Min(Sent(kind), FRAME_BYTES)

\* lines 1340-1357: the port is returned if nothing raised and len(data) == 2016
Qualifies(kind) ==
    /\ kind \notin {"open_fails", "io_fails"}
    /\ Collected(kind) = FRAME_BYTES

\* Mutant: the loop goes on after a port qualified and returns the last one.
RECURSIVE AutoDetectFrom_NoStop(_, _)
AutoDetectFrom_NoStop(ps, i) ==
    IF i > Len(ps) THEN 0
    ELSE IF AutoDetectFrom_NoStop(ps, i + 1) # 0 THEN AutoDetectFrom_NoStop(ps, i + 1)
    ELSE IF Qualifies(ps[i]) THEN i
    ELSE 0

\* lines 1339-1359: the for loop from the i-th enumerated port on; the index
\* of the port returned, 0 for None
RECURSIVE AutoDetectFrom(_, _)
AutoDetectFrom(ps, i) ==
    IF i > Len(ps) THEN 0
    ELSE IF Qualifies(ps[i]) THEN i
    ELSE AutoDetectFrom(ps, i + 1)

\* The ports the probe tried, in order: up to the one returned, or all.
Probed(ps) ==
    IF AutoDetectFrom(ps, 1) = 0 THEN [i \in 1..Len(ps) |-> i]
    ELSE [i \in 1..AutoDetectFrom(ps, 1) |-> i]

\* lines 1341-1358: the ports the probe opened and has not closed when it
\* returns.  close() is called at line 1352 only; a port whose
\* reset_input_buffer, write, in_waiting or read raised is left to the
\* finalizer of its Serial object, which the runtime has run by then or not.
LeftOpen(ps, finalized) ==
    IF finalized THEN {}
    ELSE {i \in 1..Len(Probed(ps)) : ps[i] = "io_fails"}

\* What connect() did: whether it was called, what it returned, whether it
\* called auto_detect_port(), the ports that tried (by position in the
\* enumeration), the one it returned (0 for None), the ports the probe left
\* open and the port self.serial is on afterwards ("none" for None).
\* The device names of the enumerated ports; the configured port is COM4.
PortNames == <<"COM1", "COM2", "COM3", "COM5", "COM6">>

NotConnected ==
    [called |-> FALSE, returned |-> FALSE, probing |-> FALSE, probed |-> << >>,
     detected |-> 0, left_open |-> {}, serial |-> "none"]

\* connect(), lines 1309-1333: the configuration's serial_port afterwards and
\* what the call did.  self.serial is assigned by serial.Serial(...) before
\* reset_input_buffer() can raise (lines 1313-1315, 1324-1326).
Connect(ps, d, configured) ==
    IF d.configured = "ok"
    THEN [serial_port |-> configured,
          op |-> [called |-> TRUE, returned |-> TRUE, probing |-> FALSE, probed |-> << >>,
                  detected |-> 0, left_open |-> {},
                  serial |-> configured]]
    ELSE LET detected == AutoDetectFrom(ps, 1)
             held == IF d.configured = "reset_fails" THEN configured ELSE "none"
             op == [called |-> TRUE, returned |-> FALSE, probing |-> TRUE, probed |-> Probed(ps),
                    detected |-> detected, left_open |-> LeftOpen(ps, d.finalized),
                    serial |-> held]
         IN  IF detected = 0 \/ d.detected = "open_fails"
             THEN [serial_port |-> configured, op |-> op]
             ELSE IF d.detected = "reset_fails"
             THEN [serial_port |-> configured,
                   op |-> [op EXCEPT !.serial = PortNames[detected]]]
             ELSE [serial_port |-> PortNames[detected],
                   op |-> [op EXCEPT !.serial = PortNames[detected], !.returned = TRUE]]

-----------------------------------------------------------------------------
(* ConfigManager, lines 57-131.  A configuration value is <<"val", v>> for *)
(* a scalar v (written as a string) or <<"dict", t>> for a table t, a      *)
(* function from keys to configuration values.                             *)

IsDict(value) == value[1] = "dict"

\* DEFAULT_CONFIG, lines 60-88, for the keys of the model
DEFAULT_CONFIG ==
    [serial_port |-> <<"val", "COM4">>,
     window_width |-> <<"val", "1080">>,
     colors |-> <<"dict", [background |-> <<"val", "black">>, grid |-> <<"val", "grey">>]>>]

\* The keys and values a saved configuration file is made of: "theme" and
\* "glow" are keys the defaults do not have.
SavedKeys == {"serial_port", "colors", "theme"}
SavedNestedKeys == {"background", "glow"}
SavedTables == UNION {[ks -> {<<"val", "white">>}] : ks \in SUBSET SavedNestedKeys}
SavedValues == {<<"val", "COM7">>} \cup {<<"dict", t>> : t \in SavedTables}

\* What json.load can return for the file: a table, or a value that is no
\* table; <<"absent", "">> if there is no file and <<"corrupt", "">> if it
\* does not parse.
SavedConfigs ==
    {<<"dict", t>> : t \in UNION {[ks -> SavedValues] : ks \in SUBSET SavedKeys}}
        \cup {<<"val", "COM7">>}
ConfigFiles == SavedConfigs \cup {<<"absent", "">>, <<"corrupt", "">>}

\* Mutant: the update is not recursive, a saved table replaces the default one.
RECURSIVE DeepUpdate_Shallow(_, _)
DeepUpdate_Shallow(base_dict, update_dict) ==
    [temp_key \in DOMAIN base_dict \cup DOMAIN update_dict |->
        IF temp_key \notin DOMAIN update_dict THEN base_dict[temp_key]
        ELSE update_dict[temp_key]]

\* _deep_update, lines 125-131: base_dict after the loop over update_dict
RECURSIVE DeepUpdate(_, _)
DeepUpdate(base_dict, update_dict) ==
    [temp_key \in DOMAIN base_dict \cup DOMAIN update_dict |->
        IF temp_key \notin DOMAIN update_dict THEN base_dict[temp_key]
        ELSE IF /\ temp_key \in DOMAIN base_dict
                /\ IsDict(base_dict[temp_key])
                /\ IsDict(update_dict[temp_key])
             THEN <<"dict", DeepUpdate(base_dict[temp_key][2], update_dict[temp_key][2])>>
             ELSE update_dict[temp_key]]

\* load_config, lines 103-112: self.config afterwards.  Without a file
\* nothing is read; a file that does not parse, or whose value has no
\* items(), raises before anything is assigned and the exception is caught.
LoadConfig(current, file) ==
    IF file[1] \in {"absent", "corrupt"} THEN current
    ELSE IF ~IsDict(file) THEN current
    ELSE DeepUpdate(current, file[2])

-----------------------------------------------------------------------------
(* The settings surface, lines 555-1183, and its colour picker, lines       *)
(* 271-494.  Colours are <<r, g, b>>.                                       *)

\* The colour swatches of the model, with their colours in DEFAULT_CONFIG
Swatches == {"background", "dut1_trace"}
DefaultColors == [background |-> <<0, 0, 0>>, dut1_trace |-> <<50, 150, 255>>]

\* The fields of the application other than the connection, lines 1207-1252.
InitFields ==
    /\ std = EmptyBuffers
    /\ weak = EmptyBuffers
    /\ active = EmptyBuffers
    /\ frame_count = 0
    /\ paused = FALSE
    /\ single_channel = FALSE
    /\ auto_scale = FALSE
    /\ excitation_mode = 0
    /\ alt_use_weak = FALSE
    /\ last_mode_was_weak = FALSE
    /\ zoom_level = <<1, 1>>
    /\ pan_offset_x = <<0, 1>>
    /\ pan_offset_y = <<0, 1>>
    /\ settings_active = FALSE
    /\ picker_active = FALSE
    /\ last_op = Idle("init")
    /\ alt_log = << >>
    /\ rx = << >>
    /\ pc = "idle"
    /\ calls = << >>
    /\ data_len = 0
    /\ clock = 0
    /\ in_waiting = 0
    /\ dragging = FALSE
    /\ drag_start_offset = << >>
    /\ buttons = {}
    /\ tab = 0
    /\ editing_color = "none"
    /\ picker_color = <<0, 0, 0>>
    /\ original_color = <<0, 0, 0>>
    /\ picker_dragging = -1
    /\ swatches = DefaultColors
    /\ colors = DefaultColors
    /\ draw_args = << >>
    /\ points = << >>

\* ConfigManager() on a host without a configuration file, lines 90-93
NoConfigFile ==
    /\ config_file = <<"absent", "">>
    /\ config = LoadConfig(DEFAULT_CONFIG, config_file)

\* The state after construction on a host without further serial ports:
\* connect() opened the configured port or it did not.
Init ==
    /\ ports = << >>
    /\ direct \in {[configured |-> k, detected |-> "ok", finalized |-> TRUE] :
                       k \in {"ok", "open_fails"}}
    /\ serial_port = Connect(ports, direct, "COM4").serial_port
    /\ connect_op = Connect(ports, direct, "COM4").op
    /\ serial_open = (connect_op.serial # "none")
    /\ InitFields
    /\ NoConfigFile

\* The state at line 1204, before connect() is called, on a host with up to
\* MaxPorts serial ports.
InitConnect ==
    /\ ports \in UNION {[1..n -> PortKinds] : n \in 0..MaxPorts}
    /\ direct \in [configured : OpenKinds, detected : OpenKinds, finalized : BOOLEAN]
    /\ serial_port = "COM4"
    /\ connect_op = NotConnected
    /\ serial_open = FALSE
    /\ InitFields
    /\ NoConfigFile

\* The state at line 92 of ConfigManager(), line 1188: the configuration is
\* a copy of the defaults and the file, if any, has not been read.
InitLoad ==
    /\ config_file \in ConfigFiles
    /\ config = DEFAULT_CONFIG
    /\ ports = << >>
    /\ direct = [configured |-> "ok", detected |-> "ok", finalized |-> TRUE]
    /\ serial_port = "COM4"
    /\ connect_op = NotConnected
    /\ serial_open = FALSE
    /\ InitFields

\* line 93
DoLoadConfig ==
    /\ last_op.name = "init"
    /\ config' = LoadConfig(config, config_file)
    /\ last_op' = Idle("load_config")
    /\ UNCHANGED <<serial_open, store, flags, excitation_mode, alt_use_weak, view, settings,
                   alt_log, wire, link, mouse, dialog, config_file, drawing>>

\* line 1205
DoConnect ==
    /\ ~connect_op.called
    /\ serial_port' = Connect(ports, direct, serial_port).serial_port
    /\ connect_op' = Connect(ports, direct, serial_port).op
    /\ serial_open' = (connect_op'.serial # "none")
    /\ UNCHANGED <<store, flags, excitation_mode, alt_use_weak, view, settings,
                   last_op, alt_log, wire, ports, direct, aux>>

-----------------------------------------------------------------------------
(* update(dt) and acquire(), lines 1361-1456 *)

\* Mutant: the tick does not look at paused.
TickAcquires_IgnorePause == ~settings_active

\* line 1451: the tick acquires only if not paused and the settings surface is inactive
TickAcquires == ~paused /\ ~settings_active

\* Mutant: the length check only asks for whole words.
FrameAccepted_WholeWords(data) == Len(data) % 2 = 0

\* lines 1394 and 1403: the response is parsed and stored only if both hold
FrameAccepted(data) ==
    /\ Len(data) = FRAME_BYTES
    /\ Len(ParseValues(data)) = FRAME_WORDS

\* FrameAccepted and Decode of the responses the device can give, evaluated
\* once (@@ makes the table an explicit function)
AcceptTable == [data \in Responses |-> FrameAccepted(data)] @@ << >>
DecodeTable == [data \in FullFrames |-> Decode(data)] @@ << >>
Accepted(data) == AcceptTable[data]
Decoded(data) == IF Len(data) = FRAME_BYTES THEN DecodeTable[data] ELSE Decode(data)

\* Mutant: every response is written to the Strong buffers.
StoreStd_Always(store_as_weak, decoded, old) == decoded

\* lines 1413-1427: the Strong buffers after storing a decoded response
StoreStd(store_as_weak, decoded, old) == IF store_as_weak THEN old ELSE decoded

\* Mutant: the Weak store leaves drive_voltage_weak as it was.
StoreWeak_KeepDrive(store_as_weak, decoded, old) ==
    IF store_as_weak THEN [decoded EXCEPT !.drive_voltage = old.drive_voltage] ELSE old

\* lines 1413-1427: the Weak buffers after storing a decoded response
StoreWeak(store_as_weak, decoded, old) == IF store_as_weak THEN decoded ELSE old

\* Mutant: the active series is always taken from the Strong buffers.
SetActive_Std(store_as_weak, new_std, new_weak) == new_std

\* lines 1429-1441: the active series after storing, from the buffers just stored
SetActive(store_as_weak, new_std, new_weak) == IF store_as_weak THEN new_weak ELSE new_std

\* line 1453
CountFrame(count) == count + 1

\* update() while paused or with the settings surface active: acquire() is not called.
\* settings_window.update(dt) only advances the input boxes' cursor blink.
TickSkipped ==
    /\ ~TickAcquires
    /\ last_op' = Idle("tick")
    /\ UNCHANGED <<serial_open, store, flags, excitation_mode, alt_use_weak, view, settings>>

\* acquire() returns False at line 1364: no serial connection.
TickClosed ==
    /\ TickAcquires
    /\ ~serial_open
    /\ last_op' = Idle("tick")
    /\ UNCHANGED <<serial_open, store, flags, excitation_mode, alt_use_weak, view, settings>>

\* Mutant: a transport exception closes the connection.
TickFault_Closes(fault) ==
    /\ TickAcquires
    /\ serial_open
    /\ LET d == DecideCommand(excitation_mode, alt_use_weak)
       IN  /\ alt_use_weak' = d.alt
           /\ last_op' = Op("tick", d, fault # "reset", fault, -1, FALSE)
    /\ serial_open' = FALSE
    /\ UNCHANGED <<store, flags, excitation_mode, view, settings>>

\* acquire() with the transport raising in reset_input_buffer ("reset", before
\* the write) or in the read loop ("read", after it): caught at line 1445.
TickFault(fault) ==
    /\ TickAcquires
    /\ serial_open
    /\ LET d == DecideCommand(excitation_mode, alt_use_weak)
       IN  /\ alt_use_weak' = d.alt
           /\ last_op' = Op("tick", d, fault # "reset", fault, -1, FALSE)
    /\ UNCHANGED <<serial_open, store, flags, excitation_mode, view, settings>>

\* acquire() with the read loop ending with `data` that is rejected
\* (lines 1394-1395, 1403-1404).
TickRejected(data) ==
    /\ TickAcquires
    /\ serial_open
    /\ ~Accepted(data)
    /\ LET d == DecideCommand(excitation_mode, alt_use_weak)
       IN  /\ alt_use_weak' = d.alt
           /\ last_op' = Op("tick", d, TRUE, "none", Len(data), FALSE)
    /\ UNCHANGED <<serial_open, store, flags, excitation_mode, view, settings>>

\* acquire() with a response that is decoded and stored; update() counts the frame.
TickStored(data) ==
    /\ TickAcquires
    /\ serial_open
    /\ Accepted(data)
    /\ frame_count < MaxFrameCount
    /\ LET d == DecideCommand(excitation_mode, alt_use_weak)
           decoded == Decoded(data)
           new_std == StoreStd(d.store_as_weak, decoded, std)
           new_weak == StoreWeak(d.store_as_weak, decoded, weak)
       IN  /\ alt_use_weak' = d.alt
           /\ std' = new_std
           /\ weak' = new_weak
           /\ last_mode_was_weak' = d.store_as_weak
           /\ active' = SetActive(d.store_as_weak, new_std, new_weak)
           /\ last_op' = Op("tick", d, TRUE, "none", Len(data), TRUE)
    /\ frame_count' = CountFrame(frame_count)
    /\ UNCHANGED <<serial_open, flags, excitation_mode, view, settings>>

-----------------------------------------------------------------------------
(* acquire() step by step, lines 1383-1395: one tick from reset_input_buffer *)
(* to the end of the read loop.  The handler runs to completion before any   *)
(* other handler starts, so the fields it changes are written by its last    *)
(* step.                                                                     *)

\* line 1389: time.time() - start > 0.5
ReadTimeout == TimeUnits \div 2
TimedOut(t) == t > ReadTimeout

\* Mutant: the read takes everything that is waiting.
ReadSize_All(waiting, len) == waiting

\* line 1392: min(self.serial.in_waiting, 2016 - len(data))
ReadSize(waiting, len) == Min(waiting, FRAME_BYTES - len)

\* Mutant: the command byte is not written.
AfterCall_SkipWrite(call) == "check"

\* lines 1383-1388: what follows reset_input_buffer() and write(command)
AfterCall(call) == IF call = "reset" THEN "write" ELSE "check"

\* update() calls acquire(), which passes line 1364 and decides the command.
WireStart ==
    /\ pc = "idle"
    /\ TickAcquires
    /\ serial_open
    /\ frame_count < MaxFrameCount
    /\ pc' = "reset"
    /\ calls' = << >>
    /\ data_len' = 0
    /\ UNCHANGED <<serial_open, store, flags, excitation_mode, alt_use_weak, view, settings,
                   last_op, alt_log, rx, clock, in_waiting, link, aux>>

\* line 1383: reset_input_buffer() discards what is waiting
WireReset ==
    /\ pc = "reset"
    /\ calls' = Append(calls, "reset")
    /\ in_waiting' = 0
    /\ pc' = AfterCall("reset")
    /\ UNCHANGED <<serial_open, store, flags, excitation_mode, alt_use_weak, view, settings,
                   last_op, alt_log, rx, data_len, clock, link, aux>>

\* lines 1384-1387: write(command), data = bytearray(), start = time.time()
WireWrite ==
    /\ pc = "write"
    /\ calls' = Append(calls, "write")
    /\ data_len' = 0
    /\ clock' = 0
    /\ pc' = AfterCall("write")
    /\ UNCHANGED <<serial_open, store, flags, excitation_mode, alt_use_weak, view, settings,
                   last_op, alt_log, rx, in_waiting, link, aux>>

\* lines 1388-1390: the loop goes on while fewer than 2016 bytes are read and
\* the time is not up
WireCheck ==
    /\ pc = "check"
    /\ data_len < FRAME_BYTES
    /\ ~TimedOut(clock)
    /\ pc' = "read"
    /\ UNCHANGED <<serial_open, store, flags, excitation_mode, alt_use_weak, view, settings,
                   last_op, alt_log, rx, calls, data_len, clock, in_waiting, link, aux>>

\* lines 1391-1392: read what is waiting, up to the bytes still missing
WireRead ==
    /\ pc = "read"
    /\ IF in_waiting > 0
       THEN /\ data_len' = data_len + ReadSize(in_waiting, data_len)
            /\ in_waiting' = in_waiting - ReadSize(in_waiting, data_len)
            /\ calls' = Append(calls, "read")
       ELSE UNCHANGED <<data_len, in_waiting, calls>>
    /\ pc' = "check"
    /\ UNCHANGED <<serial_open, store, flags, excitation_mode, alt_use_weak, view, settings,
                   last_op, alt_log, rx, clock, link, aux>>

\* reset_input_buffer() raises: acquire() returns False from line 1447
WireResetFault ==
    /\ pc = "reset"
    /\ TickFault("reset")
    /\ calls' = Append(calls, "reset")
    /\ pc' = "idle"
    /\ UNCHANGED <<alt_log, rx, data_len, clock, in_waiting, link, aux>>

\* in_waiting or read() raises
WireReadFault ==
    /\ pc = "read"
    /\ TickFault("read")
    /\ calls' = Append(calls, "read")
    /\ pc' = "idle"
    /\ UNCHANGED <<alt_log, rx, data_len, clock, in_waiting, link, aux>>

\* lines 1389-1390 and 1394-1395: the time is up with fewer than 2016 bytes
WireTimeout ==
    /\ pc = "check"
    /\ data_len < FRAME_BYTES
    /\ TimedOut(clock)
    /\ LET d == DecideCommand(excitation_mode, alt_use_weak)
       IN  /\ alt_use_weak' = d.alt
           /\ last_op' = Op("tick", d, TRUE, "none", data_len, FALSE)
    /\ pc' = "idle"
    /\ UNCHANGED <<serial_open, store, flags, excitation_mode, view, settings,
                   alt_log, rx, calls, data_len, clock, in_waiting, link, aux>>

\* line 1388 ends the loop with the bytes of a whole response (here the first
\* of the device's), which is decoded and stored (lines 1394-1443)
WireComplete ==
    /\ pc = "check"
    /\ data_len >= FRAME_BYTES
    /\ LET data == FirstFrame
       IN  /\ Len(data) = data_len
           /\ TickStored(data)
           /\ rx' = data
    /\ pc' = "idle"
    /\ UNCHANGED <<alt_log, calls, data_len, clock, in_waiting, link, aux>>

\* The device: a response arrives whole or in parts, at any time.
Deliver(n) ==
    /\ in_waiting + n <= MaxInWaiting
    /\ in_waiting' = in_waiting + n
    /\ UNCHANGED <<serial_open, store, flags, excitation_mode, alt_use_weak, view, settings,
                   last_op, alt_log, rx, pc, calls, data_len, clock, link, aux>>

\* Time passes while the read loop runs; beyond the timeout it is not counted.
ClockTick ==
    /\ pc \in {"check", "read"}
    /\ ~TimedOut(clock)
    /\ clock' = clock + 1
    /\ UNCHANGED <<serial_open, store, flags, excitation_mode, alt_use_weak, view, settings,
                   last_op, alt_log, rx, pc, calls, data_len, in_waiting, link, aux>>

-----------------------------------------------------------------------------
(* on_key_press, lines 1914-1955, with the default key bindings.  The quit  *)
(* keys close the window and end the program; they are not modelled.       *)

\* Mutant: the mode is advanced without the wrap.
CycleMode_NoWrap(mode) == mode + 1

\* line 1940
CycleMode(mode) == (mode + 1) % 3

\* Mutant: ESCAPE hides the settings surface whether the picker is open or not.
EscapeHidesSettings_Always(picker) == TRUE

\* line 1918: ESCAPE hides the settings surface if the colour picker is closed
EscapeHidesSettings(picker) == ~picker

\* ESCAPE while the settings surface is active, lines 1917-1925: the
\* settings surface is hidden, or else the picker takes its original colour
\* back and is hidden (lines 325-328) and editing_color is cleared
KeyEscapeSettings ==
    /\ settings_active
    /\ IF EscapeHidesSettings(picker_active)
       THEN /\ settings_active' = FALSE
            /\ UNCHANGED <<picker_active, picker_color, picker_dragging, editing_color>>
       ELSE /\ picker_color' = original_color
            /\ picker_active' = FALSE
            /\ picker_dragging' = -1
            /\ editing_color' = "none"
            /\ UNCHANGED settings_active
    /\ last_op' = Idle("escape")
    /\ UNCHANGED <<alt_log, wire, link, mouse, conf, drawing>>
    /\ UNCHANGED <<tab, original_color, swatches, colors>>
    /\ UNCHANGED <<serial_open, store, flags, excitation_mode, alt_use_weak, view>>

\* any other key while the settings surface is active, lines 1928-1934:
\* BACKSPACE edits an input box, the rest is ignored
KeyIgnored ==
    /\ settings_active
    /\ last_op' = Idle("input")
    /\ UNCHANGED <<alt_log, wire, link, aux>>
    /\ UNCHANGED <<serial_open, store, flags, excitation_mode, alt_use_weak, view, settings>>

KeySpace ==
    /\ ~settings_active
    /\ excitation_mode' = CycleMode(excitation_mode)
    /\ last_op' = Idle("key_space")
    /\ UNCHANGED <<alt_log, wire, link, aux>>
    /\ UNCHANGED <<serial_open, store, flags, alt_use_weak, view, settings>>

KeyPause ==
    /\ ~settings_active
    /\ paused' = ~paused
    /\ last_op' = Idle("input")
    /\ UNCHANGED <<alt_log, wire, link, aux>>
    /\ UNCHANGED <<serial_open, store, single_channel, auto_scale, excitation_mode,
                   alt_use_weak, view, settings>>

KeySingleChannel ==
    /\ ~settings_active
    /\ single_channel' = ~single_channel
    /\ last_op' = Idle("input")
    /\ UNCHANGED <<alt_log, wire, link, aux>>
    /\ UNCHANGED <<serial_open, store, paused, auto_scale, excitation_mode,
                   alt_use_weak, view, settings>>

KeyAutoScale ==
    /\ ~settings_active
    /\ auto_scale' = ~auto_scale
    /\ last_op' = Idle("input")
    /\ UNCHANGED <<alt_log, wire, link, aux>>
    /\ UNCHANGED <<serial_open, store, paused, single_channel, excitation_mode,
                   alt_use_weak, view, settings>>

\* Mutant: reset_view leaves the pan offsets as they are.
ResetView_KeepPan(zoom, pan_x, pan_y) ==
    [zoom |-> <<1, 1>>, pan_x |-> pan_x, pan_y |-> pan_y]

\* reset_view, lines 1868-1872: the view it leaves, from the view it finds
ResetView(zoom, pan_x, pan_y) ==
    [zoom |-> <<1, 1>>, pan_x |-> <<0, 1>>, pan_y |-> <<0, 1>>]

\* the reset-view key, lines 1951-1953
KeyResetView ==
    /\ ~settings_active
    /\ IF ~auto_scale
       THEN LET reset == ResetView(zoom_level, pan_offset_x, pan_offset_y)
            IN  /\ zoom_level' = reset.zoom
                /\ pan_offset_x' = reset.pan_x
                /\ pan_offset_y' = reset.pan_y
       ELSE UNCHANGED view
    /\ last_op' = Idle("reset")
    /\ UNCHANGED <<alt_log, wire, link, aux>>
    /\ UNCHANGED <<serial_open, store, flags, excitation_mode, alt_use_weak, settings>>

\* line 1954-1955, and the Settings button, lines 1971-1974
ShowSettings ==
    /\ ~settings_active
    /\ settings_active' = TRUE
    /\ last_op' = Idle("input")
    /\ UNCHANGED <<alt_log, wire, link, aux>>
    /\ UNCHANGED <<serial_open, store, flags, excitation_mode, alt_use_weak, view,
                   picker_active>>

-----------------------------------------------------------------------------
(* on_mouse_scroll, lines 2014-2024 *)

\* Mutant: the scroll wheel zooms while the settings surface is shown.
ScrollZooms_InSettings(shown, auto) == ~auto

\* lines 2016-2019: the scroll wheel zooms only outside the settings surface
\* and while auto-scale is off
ScrollZooms(shown, auto) == ~shown /\ ~auto

ZoomIn(z) == Frac(z[1] * 6, z[2] * 5)                      \* zoom_level *= 1.2

\* Mutant: the scroll-down step has no floor.
ZoomOut_NoFloor(z) == Frac(z[1] * 5, z[2] * 6)

ZoomOut(z) == FracMax(<<1, 10>>, Frac(z[1] * 5, z[2] * 6)) \* /= 1.2, then max(0.1, .)

MouseScroll(up) ==
    /\ up => FracLess(zoom_level, <<Pow(6, MaxZoomIn), Pow(5, MaxZoomIn)>>)
    /\ ~up => FracLess(<<Pow(5, MaxZoomOut), Pow(6, MaxZoomOut)>>, zoom_level)
    /\ IF ScrollZooms(settings_active, auto_scale)
       THEN zoom_level' = IF up THEN ZoomIn(zoom_level) ELSE ZoomOut(zoom_level)
       ELSE UNCHANGED zoom_level
    /\ last_op' = Idle("input")
    /\ UNCHANGED <<alt_log, wire, link, aux>>
    /\ UNCHANGED <<serial_open, store, flags, excitation_mode, alt_use_weak,
                   pan_offset_x, pan_offset_y, settings>>

\* The handler itself, without the limits Spec puts on the zoom explored.
Scroll(up) ==
    /\ IF ScrollZooms(settings_active, auto_scale)
       THEN zoom_level' = IF up THEN ZoomIn(zoom_level) ELSE ZoomOut(zoom_level)
       ELSE UNCHANGED zoom_level
    /\ last_op' = Idle("input")
    /\ UNCHANGED <<alt_log, wire, link, aux>>
    /\ UNCHANGED <<serial_open, store, flags, excitation_mode, alt_use_weak,
                   pan_offset_x, pan_offset_y, settings>>

-----------------------------------------------------------------------------
(* SettingsWindow.handle_click, lines 1052-1102, with the colour picker's, *)
(* lines 450-475.  A click is <<widget, n, level>>: the widget under the   *)
(* cursor in the layer that handles the click, with the number of the tab, *)
(* slider or swatch and the level the slider position stands for.          *)

SwatchKeys == <<"background", "dut1_trace">>

\* _update_slider, lines 490-494: the colour with component index set
SetSlider(color, index, level) == [color EXCEPT ![index + 1] = level]

\* The click in the colour picker, lines 1058-1065 and 450-475
PickerClick(hit) ==
    /\ picker_active
    /\ IF hit[1] = "picker_ok"
       THEN /\ picker_active' = FALSE
            /\ picker_dragging' = -1
            /\ swatches' = IF editing_color # "none"
                            THEN [swatches EXCEPT ![editing_color] = picker_color]
                            ELSE swatches
            /\ editing_color' = "none"
            /\ UNCHANGED picker_color
       ELSE IF hit[1] = "picker_cancel"
       THEN /\ picker_color' = original_color
            /\ picker_active' = FALSE
            /\ picker_dragging' = -1
            /\ editing_color' = "none"
            /\ UNCHANGED swatches
       ELSE IF hit[1] = "slider"
       THEN /\ picker_dragging' = hit[2]
            /\ picker_color' = SetSlider(picker_color, hit[2], hit[3])
            /\ UNCHANGED <<picker_active, editing_color, swatches>>
       ELSE UNCHANGED <<picker_active, picker_dragging, picker_color, editing_color, swatches>>
    /\ UNCHANGED <<settings_active, tab, original_color, colors>>

\* The click in the settings surface with the picker closed, lines
\* 1067-1102.  Save writes the swatch colours to the configuration (lines
\* 1172-1173); the input boxes keep the texts they were loaded with, so the
\* other settings are saved as they were.
WindowClick(hit) ==
    /\ ~picker_active
    /\ IF hit[1] = "tab"
       THEN /\ tab' = hit[2]
            /\ UNCHANGED <<settings_active, picker_active, editing_color, picker_color,
                           original_color, colors>>
       ELSE IF hit[1] = "save"
       THEN /\ colors' = swatches
            /\ settings_active' = FALSE
            /\ UNCHANGED <<tab, picker_active, editing_color, picker_color, original_color>>
       ELSE IF hit[1] = "cancel"
       THEN /\ settings_active' = FALSE
            /\ UNCHANGED <<tab, picker_active, editing_color, picker_color, original_color,
                           colors>>
       ELSE IF hit[1] = "swatch" /\ tab = 1
       THEN /\ editing_color' = SwatchKeys[hit[2]]
            /\ picker_color' = swatches[SwatchKeys[hit[2]]]
            /\ original_color' = swatches[SwatchKeys[hit[2]]]
            /\ picker_active' = TRUE
            /\ UNCHANGED <<settings_active, tab, colors>>
       ELSE UNCHANGED <<settings_active, tab, picker_active, editing_color, picker_color,
                        original_color, colors>>
    /\ UNCHANGED <<picker_dragging, swatches>>

-----------------------------------------------------------------------------
(* The mouse, lines 1962-2012.  The plot is as wide and as high as the     *)
(* window less 200 pixels.                                                 *)

WINDOW_SIZE == 1080
PLOT_MARGIN == 200

\* lines 2001-2008: a pan offset after a drag by d pixels over an axis that
\* shows base_range at zoom 1.0; the X offset grows with dx, the Y offset
\* falls with dy
DragPan(start, d, base_range, zoom) ==
    FracAdd(start, FracDiv(<<d * base_range, WINDOW_SIZE - PLOT_MARGIN>>, zoom))

\* Mutant: a press starts a drag while auto-scale is on.
PressStartsDrag_InAuto(button, auto) == button = "left"

\* line 1977
PressStartsDrag(button, auto) == button = "left" /\ ~auto

\* Mutant: a drag pans while auto-scale is on.
DragPans_InAuto(drag, auto) == drag

\* line 1997
DragPans(drag, auto) == drag /\ ~auto

\* on_mouse_press, lines 1962-1980
MousePress(button, hit) ==
    /\ button \notin buttons
    /\ buttons' = buttons \cup {button}
    /\ IF settings_active
       THEN /\ PickerClick(hit) \/ WindowClick(hit)
            /\ UNCHANGED <<dragging, drag_start_offset>>
       ELSE IF hit[1] = "settings_button"
       THEN /\ settings_active' = TRUE
            /\ UNCHANGED <<dragging, drag_start_offset, picker_active, dialog>>
       ELSE IF PressStartsDrag(button, auto_scale)
       THEN /\ dragging' = TRUE
            /\ drag_start_offset' = <<pan_offset_x, pan_offset_y>>
            /\ UNCHANGED <<settings, dialog>>
       ELSE UNCHANGED <<dragging, drag_start_offset, settings, dialog>>
    /\ last_op' = Idle("press")
    /\ UNCHANGED <<alt_log, wire, link, conf, drawing>>
    /\ UNCHANGED <<serial_open, store, flags, excitation_mode, alt_use_weak, view>>

\* on_mouse_release, lines 1982-1989, with the picker's handle_release,
\* lines 477-479
MouseRelease(button) ==
    /\ button \in buttons
    /\ buttons' = buttons \ {button}
    /\ IF settings_active
       THEN picker_dragging' = -1 /\ UNCHANGED dragging
       ELSE /\ dragging' = IF button = "left" THEN FALSE ELSE dragging
            /\ UNCHANGED picker_dragging
    /\ last_op' = Idle("release")
    /\ UNCHANGED <<alt_log, wire, link, conf, drawing>>
    /\ UNCHANGED <<drag_start_offset, tab, editing_color, picker_color, original_color,
                   swatches, colors>>
    /\ UNCHANGED <<serial_open, store, flags, excitation_mode, alt_use_weak, view, settings>>

\* on_mouse_drag, lines 1991-2012, with the settings surface's handle_drag,
\* lines 1129-1132 and 481-484: a motion by (dx, dy) pixels with a button
\* held, to where the picker's sliders read level
MouseDrag(dx, dy, level) ==
    /\ buttons # {}
    /\ IF settings_active
       THEN /\ picker_color' = IF picker_active /\ picker_dragging # -1
                                THEN SetSlider(picker_color, picker_dragging, level)
                                ELSE picker_color
            /\ UNCHANGED <<view, drag_start_offset>>
       ELSE IF DragPans(dragging, auto_scale)
       THEN /\ pan_offset_x' = DragPan(drag_start_offset[1], dx, ADC_MAX, zoom_level)
            /\ pan_offset_y' = DragPan(drag_start_offset[2], -dy, ADC_MAX - 700, zoom_level)
            /\ drag_start_offset' = <<pan_offset_x', pan_offset_y'>>
            /\ UNCHANGED <<zoom_level, picker_color>>
       ELSE UNCHANGED <<view, drag_start_offset, picker_color>>
    /\ last_op' = Idle("drag")
    /\ UNCHANGED <<alt_log, wire, link, conf, drawing>>
    /\ UNCHANGED <<dragging, buttons, tab, editing_color, original_color, picker_dragging,
                   swatches, colors>>
    /\ UNCHANGED <<serial_open, store, flags, excitation_mode, alt_use_weak, settings>>

-----------------------------------------------------------------------------
(* fit_to_window, lines 1816-1866, and the fixed scale of draw_plot, lines   *)
(* 1541-1558                                                                 *)

\* list_min and list_max, lines 42-49
list_min(lst) ==
    IF lst = << >> THEN 0
    ELSE LET S == {lst[i] : i \in DOMAIN lst} IN CHOOSE m \in S : \A v \in S : m <= v

list_max(lst) ==
    IF lst = << >> THEN 0
    ELSE LET S == {-lst[i] : i \in DOMAIN lst} IN -(CHOOSE m \in S : \A v \in S : m <= v)

\* lines 1821-1826 (and 1517-1522): both variants in Alternating mode once
\* both hold a frame, the active series otherwise
BothVariants(mode, s, w) == mode = 2 /\ Len(s.ch1) > 0 /\ Len(w.ch1) > 0

AllX(mode, s, w, a) ==
    IF BothVariants(mode, s, w)
    THEN s.ch1_voltage \o s.ch2_voltage \o w.ch1_voltage \o w.ch2_voltage
    ELSE a.ch1_voltage \o a.ch2_voltage

AllY(mode, s, w, a) ==
    IF BothVariants(mode, s, w)
    THEN s.ch1 \o s.ch2 \o w.ch1 \o w.ch2
    ELSE a.ch1 \o a.ch2

\* lines 1843-1847 and 1542-1547: the fixed scale
base_x_min == <<0, 1>>
base_x_max == <<ADC_MAX, 1>>
base_y_max == Frac(ADC_MAX - 700, 8)
base_y_min == Frac(-(ADC_MAX - 700) * 7, 8)

\* lines 1833-1842: [lo, hi] with 20% of its span added on each side
Padded(lo, hi) ==
    [lo |-> FracSub(<<lo, 1>>, Frac(hi - lo, 5)), hi |-> FracAdd(<<hi, 1>>, Frac(hi - lo, 5))]

\* Mutant: the zoom shows the data without the margin.
FitZoom_NoMargin(lo, hi, base_range) ==
    IF hi - lo > 0 THEN FracDiv(base_range, <<hi - lo, 1>>) ELSE <<1, 1>>

\* lines 1840-1853: base range / padded data range if that is > 0, else 1.0
FitZoom(lo, hi, base_range) ==
    LET data_range == FracSub(Padded(lo, hi).hi, Padded(lo, hi).lo)
    IN  IF FracLess(<<0, 1>>, data_range) THEN FracDiv(base_range, data_range) ELSE <<1, 1>>

\* lines 1859-1866: centre of the padded data minus centre of the fixed scale
FitPan(lo, hi, base_lo, base_hi) ==
    FracSub(FracHalf(FracAdd(Padded(lo, hi).lo, Padded(lo, hi).hi)),
            FracHalf(FracAdd(base_lo, base_hi)))

\* zoom_level, pan_offset_x and pan_offset_y after fit_to_window on the data
FitToWindow(all_x, all_y) ==
    LET zoom_x == FitZoom(list_min(all_x), list_max(all_x), FracSub(base_x_max, base_x_min))
        zoom_y == FitZoom(list_min(all_y), list_max(all_y), FracSub(base_y_max, base_y_min))
    IN  [zoom |-> FracMin(FracMin(zoom_x, zoom_y), <<1, 1>>),
         pan_x |-> FitPan(list_min(all_x), list_max(all_x), base_x_min, base_x_max),
         pan_y |-> FitPan(list_min(all_y), list_max(all_y), base_y_min, base_y_max)]

\* lines 1549-1558: the part of one axis the fixed scale shows
Visible(base_lo, base_hi, zoom, pan) ==
    LET range_visible == FracDiv(FracSub(base_hi, base_lo), zoom)
        center == FracAdd(FracHalf(FracAdd(base_hi, base_lo)), pan)
    IN  [lo |-> FracSub(center, FracHalf(range_visible)),
         hi |-> FracAdd(center, FracHalf(range_visible))]

\* FitToWindow of the buffers the view responses can leave, evaluated once
ViewBuffers == {EmptyBuffers} \cup {DecodeTable[data] : data \in ViewFrames}

FitTable ==
    [c \in (0..2) \X ViewBuffers \X ViewBuffers \X ViewBuffers |->
        FitToWindow(AllX(c[1], c[2], c[3], c[4]), AllY(c[1], c[2], c[3], c[4]))] @@ << >>

\* The traces draw_plot draws, lines 1593-1617: channel 2 only if not
\* single_channel
DrawnX(mode, s, w, a, single) ==
    IF BothVariants(mode, s, w)
    THEN s.ch1_voltage \o (IF single THEN << >> ELSE s.ch2_voltage)
         \o w.ch1_voltage \o (IF single THEN << >> ELSE w.ch2_voltage)
    ELSE a.ch1_voltage \o (IF single THEN << >> ELSE a.ch2_voltage)

DrawnY(mode, s, w, a, single) ==
    IF BothVariants(mode, s, w)
    THEN s.ch1 \o (IF single THEN << >> ELSE s.ch2)
         \o w.ch1 \o (IF single THEN << >> ELSE w.ch2)
    ELSE a.ch1 \o (IF single THEN << >> ELSE a.ch2)

\* The bounding box of the drawn traces with 20% of its span added on each
\* side, for the buffers the view responses can leave, evaluated once
DrawnBoxTable ==
    [c \in (0..2) \X ViewBuffers \X ViewBuffers \X ViewBuffers \X BOOLEAN |->
        [x |-> Padded(list_min(DrawnX(c[1], c[2], c[3], c[4], c[5])),
                      list_max(DrawnX(c[1], c[2], c[3], c[4], c[5]))),
         y |-> Padded(list_min(DrawnY(c[1], c[2], c[3], c[4], c[5])),
                      list_max(DrawnY(c[1], c[2], c[3], c[4], c[5])))]] @@ << >>

-----------------------------------------------------------------------------
(* The scale of draw_plot, lines 1516-1558 *)

\* Mutant: the margin is 10% of the span also when the span is zero.
AutoMargin_NoFallback(lo, hi) == Frac(hi - lo, 10)

\* lines 1529 and 1533: 10% of the span, or 100 if the span is zero
AutoMargin(lo, hi) == IF hi > lo THEN Frac(hi - lo, 10) ELSE <<100, 1>>

\* lines 1530-1540: one axis of the auto-scale, from the data's min and max
AutoAxis(lo, hi) ==
    LET axis_min == FracSub(<<lo, 1>>, AutoMargin(lo, hi))
        axis_max == FracAdd(<<hi, 1>>, AutoMargin(lo, hi))
    IN  [lo |-> axis_min,
         hi |-> IF axis_max = axis_min THEN FracAdd(axis_min, <<1, 1>>) ELSE axis_max]

\* lines 1516-1540
AutoBounds(all_x, all_y) ==
    [x |-> AutoAxis(list_min(all_x), list_max(all_x)),
     y |-> AutoAxis(list_min(all_y), list_max(all_y))]

\* AutoBounds of the buffers the view responses can leave, evaluated once
AutoTable ==
    [c \in (0..2) \X ViewBuffers \X ViewBuffers \X ViewBuffers |->
        AutoBounds(AllX(c[1], c[2], c[3], c[4]), AllY(c[1], c[2], c[3], c[4]))] @@ << >>

\* Mutant: the scale is zoomed and panned in auto-scale as well.
PlotBounds_Zoomed(auto, mode, s, w, a, zoom, pan_x, pan_y) ==
    [x |-> Visible(base_x_min, base_x_max, zoom, pan_x),
     y |-> Visible(base_y_min, base_y_max, zoom, pan_y)]

\* lines 1516-1558: x_min, x_max, y_min, y_max of a plot that has data
PlotBounds(auto, mode, s, w, a, zoom, pan_x, pan_y) ==
    IF auto THEN AutoTable[<<mode, s, w, a>>]
    ELSE [x |-> Visible(base_x_min, base_x_max, zoom, pan_x),
          y |-> Visible(base_y_min, base_y_max, zoom, pan_y)]

-----------------------------------------------------------------------------
(* _draw_trace, lines 1715-1732 *)

FracMul(p, q) == Frac(p[1] * q[1], p[2] * q[2])

\* int() of a number: the fraction truncated toward zero
Trunc(p) == IF p[1] >= 0 THEN p[1] \div p[2] ELSE -((-p[1]) \div p[2])

\* lines 1466-1471: the plot area on_draw computes for a window
PlotRect(width, height) ==
    LET margin == IF 150 < width \div 10 THEN 150 ELSE width \div 10
    IN  [x |-> margin, y |-> 100, width |-> width - margin - 50, height |-> height - 220]

\* lines 1726-1727: the position of a value between the bounds of its axis
Normalized(value, axis_min, axis_max) ==
    IF axis_max # axis_min
    THEN FracDiv(FracSub(<<value, 1>>, axis_min), FracSub(axis_max, axis_min))
    ELSE <<1, 2>>

\* Mutant: the X axis runs from the left edge to the right.
ScreenX_Unmirrored(x, w, x_norm) == Trunc(FracAdd(<<x, 1>>, FracMul(x_norm, <<w, 1>>)))

\* line 1729
ScreenX(x, w, x_norm) == Trunc(FracSub(<<x + w, 1>>, FracMul(x_norm, <<w, 1>>)))

\* line 1730
ScreenY(y, h, y_norm) == Trunc(FracAdd(<<y, 1>>, FracMul(y_norm, <<h, 1>>)))

\* lines 1719-1731: the points list of a call, empty if the call returns at
\* line 1720
TracePoints(args) ==
    IF Len(args.voltages) < 2 THEN << >>
    ELSE [i \in 1..Len(args.voltages) |->
            <<ScreenX(args.rect.x, args.rect.width,
                      Normalized(args.voltages[i], args.x_min, args.x_max)),
              ScreenY(args.rect.y, args.rect.height,
                      Normalized(args.currents[i], args.y_min, args.y_max))>>]

\* A call of _draw_trace
DrawTrace(args) ==
    /\ draw_args' = args
    /\ points' = TracePoints(args)
    /\ last_op' = Idle("draw")
    /\ UNCHANGED <<serial_open, store, flags, excitation_mode, alt_use_weak, view, settings,
                   alt_log, wire, link, mouse, dialog, conf>>

\* Mutant: fit_to_window does not look for data.
FitHasData_Always(a) == TRUE

\* lines 1818-1819: fit_to_window returns at once unless both channels hold data
FitHasData(a) == a.ch1 # << >> /\ a.ch2 # << >>

\* The fit-window key, lines 1948-1950, and fit_to_window
KeyFitToWindow ==
    /\ ~settings_active
    /\ IF ~auto_scale /\ FitHasData(active)
       THEN LET fit == FitTable[<<excitation_mode, std, weak, active>>]
            IN  /\ zoom_level' = fit.zoom
                /\ pan_offset_x' = fit.pan_x
                /\ pan_offset_y' = fit.pan_y
       ELSE UNCHANGED view
    /\ last_op' = Idle("fit")
    /\ UNCHANGED <<alt_log, wire, link, aux>>
    /\ UNCHANGED <<serial_open, store, flags, excitation_mode, alt_use_weak, settings>>

-----------------------------------------------------------------------------
(* Specifications *)

\* The commands decided in Alternating mode, with the one of this tick added.
LogCommand ==
    alt_log' = IF excitation_mode = 2 /\ last_op'.command # "none"
               THEN Append(alt_log, last_op'.command)
               ELSE alt_log

\* The acquisition loop with the inputs that steer it.
Next ==
    \/ TickSkipped /\ UNCHANGED <<alt_log, wire, link, aux>>
    \/ TickClosed /\ UNCHANGED <<alt_log, wire, link, aux>>
    \/ \E fault \in {"reset", "read"} : TickFault(fault) /\ UNCHANGED <<alt_log, wire, link, aux>>
    \/ \E data \in Received : TickRejected(data) /\ UNCHANGED <<alt_log, wire, link, aux>>
    \/ \E data \in Received : TickStored(data) /\ UNCHANGED <<alt_log, wire, link, aux>>
    \/ KeyEscapeSettings
    \/ KeyIgnored
    \/ KeySpace
    \/ KeyPause
    \/ KeyAutoScale
    \/ KeyResetView
    \/ ShowSettings
    \/ \E up \in BOOLEAN : MouseScroll(up)

Spec == Init /\ [][Next]_vars

\* The acquisition loop under mode changes alone, with the Alternating
\* commands logged.
NextAlt ==
    \/ Len(alt_log) < MaxAltLog /\ TickClosed /\ LogCommand /\ UNCHANGED <<wire, link, aux>>
    \/ Len(alt_log) < MaxAltLog /\ \E fault \in {"reset", "read"} : TickFault(fault) /\ LogCommand /\ UNCHANGED <<wire, link, aux>>
    \/ Len(alt_log) < MaxAltLog /\ \E data \in Received : TickRejected(data) /\ LogCommand /\ UNCHANGED <<wire, link, aux>>
    \/ Len(alt_log) < MaxAltLog /\ \E data \in Received : TickStored(data) /\ LogCommand /\ UNCHANGED <<wire, link, aux>>
    \/ KeySpace

SpecAlt == Init /\ [][NextAlt]_vars

\* Frame decoding alone: a connected application in Strong mode acquires the
\* responses of the word sweep; rx keeps the bytes of the latest one.
InitDecode == Init /\ serial_open

NextDecode ==
    \E data \in SweepFrames :
        /\ TickStored(data)
        /\ rx' = data
        /\ UNCHANGED <<alt_log, pc, calls, data_len, clock, in_waiting, link, aux>>

SpecDecode == InitDecode /\ [][NextDecode]_vars

\* The view: acquisitions of the view responses in all modes, with the scroll
\* wheel, the fit-window and reset-view keys and the single-channel key.
NextView ==
    \/ \E data \in ViewFrames : TickStored(data) /\ UNCHANGED <<alt_log, wire, link, aux>>
    \/ KeySpace
    \/ KeySingleChannel
    \/ KeyFitToWindow
    \/ KeyResetView
    \/ /\ zoom_level[2] <= MaxZoomDen
       /\ FracLess(zoom_level, <<Pow(6, MaxZoomIn), Pow(5, MaxZoomIn)>>)
       /\ Scroll(TRUE)
    \/ zoom_level[2] <= MaxZoomDen /\ Scroll(FALSE)

SpecView == InitDecode /\ [][NextView]_vars

\* Start-up alone: connect() on every host of up to MaxPorts ports.
NextConnect == DoConnect

SpecConnect == InitConnect /\ [][NextConnect]_vars

\* The clicks, mouse buttons and drags of the input specifications.
InputHits ==
    {<<"plot", 0, 0>>, <<"settings_button", 0, 0>>, <<"save", 0, 0>>, <<"cancel", 0, 0>>,
     <<"tab", 1, 0>>, <<"swatch", 1, 0>>, <<"picker_ok", 0, 0>>, <<"picker_cancel", 0, 0>>,
     <<"slider", 0, 255>>}
MouseButtons == {"left", "right"}
Drags == {<<11, 22>>, <<-11, -22>>}

\* The input handlers alone, without acquisitions: the keys that act on
\* the view and the settings surface, the scroll wheel, and the mouse with
\* the settings surface and its colour picker.  The scroll wheel is explored
\* from zoom 1.0 and drags that pan from a drag start that is centred on
\* the X axis.
NextInput ==
    \/ KeyEscapeSettings
    \/ KeyIgnored
    \/ KeyAutoScale
    \/ KeyFitToWindow
    \/ KeyResetView
    \/ ShowSettings
    \/ \E up \in BOOLEAN : zoom_level = <<1, 1>> /\ Scroll(up)
    \/ \E button \in MouseButtons, hit \in InputHits : MousePress(button, hit)
    \/ \E button \in MouseButtons : MouseRelease(button)
    \/ \E d \in Drags :
          /\ (~settings_active /\ DragPans(dragging, auto_scale))
                => drag_start_offset[1] = <<0, 1>>
          /\ MouseDrag(d[1], d[2], 255)

SpecInput == InitDecode /\ [][NextInput]_vars

\* The scale of the plot: acquisitions of the view responses in all modes
\* with the auto-scale key.
NextScale ==
    \/ \E data \in ViewFrames : TickStored(data) /\ UNCHANGED <<alt_log, wire, link, aux>>
    \/ KeySpace
    \/ KeyAutoScale

SpecScale == InitDecode /\ [][NextScale]_vars

\* A call of _draw_trace: a trace of up to MaxTracePoints points on the plot
\* area of the default window and of a smaller one, with the bounds of the
\* default fixed scale, of the auto-scale of an all-2048 frame, and bounds
\* that are equal.
MaxTracePoints == 2
DrawVoltages == {0, 2048, ADC_MAX}
DrawCurrents == {-100, 0, 100}
DrawRects == {PlotRect(WINDOW_SIZE, WINDOW_SIZE), PlotRect(800, 600)}
DrawXBounds == {<<base_x_min, base_x_max>>, <<<<1948, 1>>, <<2148, 1>>>>, <<<<2048, 1>>, <<2048, 1>>>>}
DrawYBounds == {<<base_y_min, base_y_max>>, <<<<-100, 1>>, <<100, 1>>>>, <<<<0, 1>>, <<0, 1>>>>}
DrawTraces == UNION {[1..m -> DrawVoltages \X DrawCurrents] : m \in 1..MaxTracePoints}
DrawArgs ==
    { [voltages |-> [i \in 1..Len(c[1]) |-> c[1][i][1]],
       currents |-> [i \in 1..Len(c[1]) |-> c[1][i][2]],
       rect |-> c[2], x_min |-> c[3][1], x_max |-> c[3][2], y_min |-> c[4][1], y_max |-> c[4][2]] :
      c \in DrawTraces \X DrawRects \X DrawXBounds \X DrawYBounds }

\* one call in each behaviour
NextDraw == \E args \in DrawArgs : last_op.name = "init" /\ DrawTrace(args)

SpecDraw == Init /\ [][NextDraw]_vars

\* The view with auto-scale, in Strong mode: acquisitions of the widest
\* traces, the auto-scale, fit-window and reset-view keys, the scroll wheel
\* from zoom 1.0 and the left mouse button with drags that pan from a drag
\* start centred on the X axis.
NextAuto ==
    \/ TickStored(ExtremeFrame) /\ UNCHANGED <<alt_log, wire, link, aux>>
    \/ KeyAutoScale
    \/ KeyFitToWindow
    \/ KeyResetView
    \/ zoom_level = <<1, 1>> /\ Scroll(TRUE)
    \/ MousePress("left", <<"plot", 0, 0>>)
    \/ MouseRelease("left")
    \/ \E d \in Drags :
          /\ DragPans(dragging, auto_scale) => drag_start_offset[1] = <<0, 1>>
          /\ MouseDrag(d[1], d[2], 255)

SpecAuto == InitDecode /\ [][NextAuto]_vars

\* Construction of the ConfigManager alone, on every configuration file of
\* the model.
NextLoad == DoLoadConfig

SpecLoad == InitLoad /\ [][NextLoad]_vars

\* One tick of acquire() step by step, in Strong mode, with the device
\* delivering bytes and time passing.
WireStep ==
    \/ WireStart
    \/ WireReset
    \/ WireWrite
    \/ WireCheck
    \/ WireRead
    \/ WireResetFault
    \/ WireReadFault
    \/ WireTimeout
    \/ WireComplete

NextWire ==
    \/ WireStart
    \/ WireReset
    \/ WireWrite
    \/ WireCheck
    \/ WireRead
    \/ WireResetFault
    \/ WireReadFault
    \/ WireTimeout
    \/ WireComplete
    \/ \E n \in {ChunkBytes, FRAME_BYTES} : Deliver(n)
    \/ ClockTick

SpecWire == InitDecode /\ [][NextWire]_vars

\* The same with the handler running on and time passing.
SpecWireLive == SpecWire /\ WF_vars(WireStep) /\ WF_vars(ClockTick)

-----------------------------------------------------------------------------
(* Properties *)

\* A step is a tick when last_op' is a tick observation: every other handler
\* leaves another name there.
IsTick == last_op'.name = "tick"
Attempted == IsTick /\ last_op'.command # "none"
Succeeded == IsTick /\ last_op'.ok
Failed == Attempted /\ (last_op'.fault # "none" \/ last_op'.received # FRAME_BYTES)

\* The buffers the mode selects: Strong in Strong, Weak in Weak, those of
\* last_mode_was_weak in Alternating.
SelectedByMode ==
    IF excitation_mode = 0 THEN std
    ELSE IF excitation_mode = 1 THEN weak
    ELSE IF last_mode_was_weak THEN weak ELSE std

LastAcquired == IF last_mode_was_weak THEN weak ELSE std

\* C1: a tick whose acquisition fails (transport exception, or a read that ends
\* with other than 2016 bytes) leaves the Strong buffers, the Weak buffers, the
\* active series, last_mode_was_weak and frame_count as they were.
C1_FailedTickKeepsStore ==
    [][Failed => UNCHANGED <<std, weak, active, last_mode_was_weak, frame_count>>]_vars

\* A timed-out read one byte short, with both variants stored before it.
C1_Witness ==
    /\ last_op.name = "tick"
    /\ last_op.received = FRAME_BYTES - 1
    /\ std # EmptyBuffers
    /\ weak # EmptyBuffers
    /\ last_mode_was_weak

\* C2: a successful acquisition stored as Weak leaves the five Strong buffers
\* unchanged, and one stored as Strong leaves the five Weak buffers unchanged.
C2_OtherVariantKept ==
    [][Succeeded => IF last_mode_was_weak' THEN std' = std ELSE weak' = weak]_vars

\* A Weak frame just stored next to a different Strong frame, in Alternating mode.
C2_Witness ==
    /\ last_op.name = "tick"
    /\ last_op.ok
    /\ last_mode_was_weak
    /\ excitation_mode = 2
    /\ std # EmptyBuffers
    /\ std # weak

\* C3: in every reachable state the active series is the buffers the current
\* mode selects (Strong in Strong, Weak in Weak, those of lastVariant in
\* Alternating).
C3_ActiveSelectedByMode == active = SelectedByMode

\* C4: if the variant of the current mode has never been acquired (its buffers
\* are still empty) the active series is empty.
C4_EmptyUntilAcquired ==
    /\ (excitation_mode = 0 /\ std = EmptyBuffers) => active = EmptyBuffers
    /\ (excitation_mode = 1 /\ weak = EmptyBuffers) => active = EmptyBuffers

\* C5 as stated: in Alternating mode alt_use_weak toggles on a tick exactly when
\* the acquisition succeeds; a failed tick leaves it unchanged.
C5_ToggleOnlyOnSuccess ==
    [][(IsTick /\ excitation_mode = 2) =>
          ((alt_use_weak' # alt_use_weak) <=> last_op'.ok)]_vars

\* C5 amended: alt_use_weak toggles exactly on the ticks that decide a command
\* in Alternating mode, whether the acquisition then succeeds or fails; no other
\* step changes it.
C5_ToggleOnEveryAttempt ==
    [][(alt_use_weak' # alt_use_weak) <=> (Attempted /\ excitation_mode = 2)]_vars

\* A failed Alternating tick that asked for 'T' and left the flag flipped.
C5_Witness ==
    /\ last_op.name = "tick"
    /\ last_op.command = "T"
    /\ ~last_op.ok
    /\ excitation_mode = 2
    /\ alt_use_weak

\* C6: the command follows the mode table (Strong: 'T', not weak, flag kept;
\* Weak: 'W', weak, flag kept; Alternating: 'W' and weak if the flag is set, else
\* 'T' and not weak, and the flag is flipped), and a stored frame is filed under
\* the variant of the command sent for it.
C6_DecideCommandTable ==
    [][Attempted =>
          /\ excitation_mode = 0 =>
                /\ last_op'.command = "T"
                /\ ~last_op'.store_as_weak
                /\ alt_use_weak' = alt_use_weak
          /\ excitation_mode = 1 =>
                /\ last_op'.command = "W"
                /\ last_op'.store_as_weak
                /\ alt_use_weak' = alt_use_weak
          /\ excitation_mode = 2 =>
                /\ last_op'.command = (IF alt_use_weak THEN "W" ELSE "T")
                /\ last_op'.store_as_weak = alt_use_weak
                /\ alt_use_weak' = ~alt_use_weak
          /\ last_op'.ok =>
                /\ last_mode_was_weak' = (last_op'.command = "W")
                /\ last_op'.command = "W" => std' = std /\ weak' = active'
                /\ last_op'.command = "T" => weak' = weak /\ std' = active']_vars

\* A 'W' frame stored as Weak in Alternating mode.
C6_Witness ==
    /\ last_op.name = "tick"
    /\ last_op.ok
    /\ last_op.command = "W"
    /\ excitation_mode = 2
    /\ last_mode_was_weak
    /\ weak # EmptyBuffers

\* C7: the commands decided in Alternating mode alternate, starting with 'T':
\* the n-th is 'T' for odd n and 'W' for even n (T, W, T, W, T for the first five).
C7_AlternatingCommands ==
    \A n \in 1..Len(alt_log) : alt_log[n] = (IF n % 2 = 1 THEN "T" ELSE "W")

\* Five Alternating commands have been decided.
C7_Witness == Len(alt_log) >= 5 /\ SubSeq(alt_log, 1, 5) = <<"T", "W", "T", "W", "T">>

\* C8: the cycle-mode key advances the mode 0 -> 1 -> 2 -> 0 and changes nothing
\* else; the mode is always 0, 1 or 2.
C8_CycleMode ==
    /\ [](excitation_mode \in {0, 1, 2})
    /\ [][last_op'.name = "key_space" =>
             /\ excitation_mode = 0 => excitation_mode' = 1
             /\ excitation_mode = 1 => excitation_mode' = 2
             /\ excitation_mode = 2 => excitation_mode' = 0
             /\ UNCHANGED <<alt_use_weak, std, weak, active, last_mode_was_weak,
                            frame_count, paused, single_channel, auto_scale,
                            zoom_level, pan_offset_x, pan_offset_y, serial_open,
                            settings_active, picker_active>>]_vars

\* The wrap Alternating -> Strong, taken while paused and zoomed, with both
\* variants stored and the alternation flag set.
C8_Witness ==
    /\ last_op.name = "key_space"
    /\ excitation_mode = 0
    /\ paused
    /\ alt_use_weak
    /\ zoom_level # <<1, 1>>
    /\ std # EmptyBuffers
    /\ weak # EmptyBuffers

\* C9: a tick calls serial.write only if paused is false, the settings surface
\* is inactive and the serial connection is open; otherwise it decides no
\* command, writes nothing and leaves the mode, alt_use_weak, both variants'
\* buffers, the active series, last_mode_was_weak and frame_count unchanged.
C9_TickGate ==
    [][IsTick =>
          /\ last_op'.wrote => (~paused /\ ~settings_active /\ serial_open)
          /\ (paused \/ settings_active \/ ~serial_open) =>
                /\ ~last_op'.wrote
                /\ last_op'.command = "none"
                /\ UNCHANGED <<excitation_mode, alt_use_weak, std, weak, active,
                               last_mode_was_weak, frame_count>>]_vars

\* A tick skipped while paused in Alternating mode with data stored.
C9_Witness ==
    /\ last_op.name = "tick"
    /\ last_op.command = "none"
    /\ paused
    /\ serial_open
    /\ excitation_mode = 2
    /\ frame_count > 0

\* C10 as stated, its second part: in every state with at least one success
\* the active series equals the Weak buffers iff last_mode_was_weak.
C10_ActiveIsWeakIffLastWeak ==
    frame_count > 0 => ((active = weak) <=> last_mode_was_weak)

\* C10 amended: after every successful acquisition the active series is the
\* buffers of the variant just acquired, last_mode_was_weak is that variant and
\* frame_count has grown by one; in every state with at least one success the
\* active series equals the buffers of last_mode_was_weak; and only a
\* successful acquisition changes the active series.
C10_ActiveIsLastAcquired ==
    /\ [](frame_count > 0 => active = LastAcquired)
    /\ [][Succeeded =>
             /\ last_mode_was_weak' = (last_op'.command = "W")
             /\ active' = (IF last_op'.command = "W" THEN weak' ELSE std')
             /\ frame_count' = frame_count + 1]_vars
    /\ [][active' # active => Succeeded]_vars

\* A Strong frame just acquired in Strong mode while the Weak buffers hold
\* another frame.
C10_Witness ==
    /\ last_op.name = "tick"
    /\ last_op.ok
    /\ last_op.command = "T"
    /\ weak # EmptyBuffers
    /\ weak # std
    /\ active = std
    /\ frame_count >= 2

\* The 16-bit little-endian word k (0-based) of a response.
WireWord(data, k) == data[2 * k + 1] + 256 * data[2 * k + 2]

\* Stream s (0 = drive voltage, 1 = channel 1 raw, 2 = channel 2 raw) of a buffer set.
Stream(buffers, s) ==
    IF s = 0 THEN buffers.drive_voltage
    ELSE IF s = 1 THEN buffers.ch1_voltage
    ELSE buffers.ch2_voltage

\* C11: for every 2016-byte response, the decoded drive voltage, channel 1 raw
\* and channel 2 raw series have 336 entries each, word k of the response is
\* entry k div 3 of stream k mod 3, and for every i the channel currents
\* satisfy ch1[i] + ch1_voltage[i] = drive_voltage[i] and
\* ch2[i] + ch2_voltage[i] = drive_voltage[i].
C11_DecodeLayout ==
    Len(rx) = FRAME_BYTES =>
        /\ \A s \in 0..2 : Len(Stream(active, s)) = 336
        /\ Len(active.ch1) = 336 /\ Len(active.ch2) = 336
        /\ \A k \in 0..(FRAME_WORDS - 1) :
              Stream(active, k % 3)[(k \div 3) + 1] = WireWord(rx, k) % 4096
        /\ \A i \in 1..336 :
              /\ active.ch1[i] + active.ch1_voltage[i] = active.drive_voltage[i]
              /\ active.ch2[i] + active.ch2_voltage[i] = active.drive_voltage[i]

\* A response of the sweep whose three streams differ has been decoded.
C11_Witness ==
    /\ Len(rx) = FRAME_BYTES
    /\ last_op.ok
    /\ active.drive_voltage # active.ch1_voltage
    /\ active.ch1_voltage # active.ch2_voltage
    /\ active.ch1[336] # active.ch2[336]

\* The decoded sample that word k (0-based) of the response became.
Sample(buffers, k) == Stream(buffers, k % 3)[(k \div 3) + 1]

\* C12: every decoded sample is the 16-bit little-endian word of the response
\* reduced to its low 12 bits: it lies in 0..4095 and differs from the word by
\* a multiple of 4096, for every 16-bit word (65535 gives 4095, 4096 gives 0);
\* so every derived current lies in -4095..4095.
C12_MaskedRange ==
    Len(rx) = FRAME_BYTES =>
        /\ \A k \in 0..(FRAME_WORDS - 1) :
              /\ Sample(active, k) \in 0..4095
              /\ (WireWord(rx, k) - Sample(active, k)) % 4096 = 0
              /\ WireWord(rx, k) = 65535 => Sample(active, k) = 4095
              /\ WireWord(rx, k) = 4096 => Sample(active, k) = 0
        /\ \A i \in 1..336 :
              /\ active.ch1[i] \in (-4095)..4095
              /\ active.ch2[i] \in (-4095)..4095

\* A response that carries the word 65535 has been decoded.
C12_Witness ==
    /\ Len(rx) = FRAME_BYTES
    /\ last_op.ok
    /\ \E k \in 0..(FRAME_WORDS - 1) : WireWord(rx, k) = 65535 /\ Sample(active, k) = 4095

\* The decoded forms of the complete responses the device gives in Spec.
DecodedFrames == {DecodeTable[data] : data \in Frames}

\* A buffer set that holds one whole decoded response.
WholeFrame(buffers) ==
    /\ \A f \in DOMAIN buffers : Len(buffers[f]) = 336
    /\ buffers \in DecodedFrames

\* C13: no partial frame is ever stored: in every reachable state the Strong
\* buffers and the Weak buffers are each either all empty or hold 336 entries
\* in each of the five series, all five decoded from one 2016-byte response.
C13_NoPartialFrame ==
    /\ std = EmptyBuffers \/ WholeFrame(std)
    /\ weak = EmptyBuffers \/ WholeFrame(weak)

\* Both variants hold a frame, from different responses, and the latest tick
\* ended with a short read.
C13_Witness ==
    /\ WholeFrame(std)
    /\ WholeFrame(weak)
    /\ std # weak
    /\ last_op.name = "tick" /\ last_op.received = FRAME_BYTES - 1 /\ ~last_op.ok

\* C14: the read loop of acquire() always terminates, whatever the device
\* delivers and when (also never): it never holds more than 2016 bytes, with
\* 2016 bytes read the tick returns the frame without a further read, with
\* the time up and fewer than 2016 bytes it fails, a tick succeeds only with
\* 2016 bytes, and every tick that started ends.
C14_ReadLoopTerminates ==
    /\ [](data_len <= FRAME_BYTES)
    /\ [][(pc = "check" /\ data_len = FRAME_BYTES /\ pc' # pc)
            => (pc' = "idle" /\ last_op'.ok /\ frame_count' = frame_count + 1
                /\ calls' = calls /\ Len(rx') = FRAME_BYTES)]_vars
    /\ [][(pc = "check" /\ data_len < FRAME_BYTES /\ TimedOut(clock) /\ pc' # pc)
            => (pc' = "idle" /\ ~last_op'.ok /\ last_op'.received = data_len
                /\ calls' = calls /\ store' = store)]_vars
    /\ [][(pc # "idle" /\ pc' = "idle" /\ last_op'.ok) => data_len = FRAME_BYTES]_vars
    /\ (pc # "idle") ~> (pc = "idle")

\* A tick has failed by timeout with two of the three parts of a response read.
C14_Witness ==
    /\ pc = "idle"
    /\ last_op.name = "tick" /\ ~last_op.ok /\ last_op.fault = "none"
    /\ last_op.received = 2 * ChunkBytes
    /\ TimedOut(clock)

\* C15: within one tick acquire() first clears the input buffer, then writes
\* one command byte, then reads: the calls of a tick are "reset", "write" and
\* then reads only, the read loop runs only after the write, the calls of a
\* tick are never started over, and a step that fails ends the tick.
C15_StepOrder ==
    /\ [](/\ Len(calls) >= 1 => calls[1] = "reset"
          /\ Len(calls) >= 2 => calls[2] = "write"
          /\ \A i \in 3..Len(calls) : calls[i] = "read"
          /\ pc \in {"check", "read"} => Len(calls) >= 2
          /\ pc = "write" => calls = <<"reset">>
          /\ pc = "reset" => calls = << >>)
    /\ [][pc # "idle" => (calls' = calls \/ \E c \in {"reset", "write", "read"} :
                                            calls' = Append(calls, c))]_vars
    /\ [][(pc # "idle" /\ last_op' # last_op /\ ~last_op'.ok) => pc' = "idle"]_vars

\* A tick has failed by timeout after one partial read: one reset, one write,
\* one read, and nothing after the failure.
C15_Witness ==
    /\ pc = "idle"
    /\ last_op.name = "tick" /\ ~last_op.ok /\ last_op.received = ChunkBytes
    /\ calls = <<"reset", "write", "read">>

\* C16: no failure is fatal to polling.  A failed tick leaves the connection
\* open and pause and the settings surface as they were, nothing else closes
\* the connection, and every tick at which the connection is open, the
\* application is not paused and the settings surface is inactive decides a
\* command again; if the transport then raises nothing and the read ends with
\* 2016 bytes, that tick succeeds, counts the frame and makes the stored
\* frame the active series.
C16_FailureNotFatal ==
    /\ [][Failed => (serial_open' /\ UNCHANGED <<paused, settings_active>>)]_vars
    /\ [][serial_open' = serial_open]_vars
    /\ [][(IsTick /\ serial_open /\ ~paused /\ ~settings_active)
            => /\ Attempted
               /\ (last_op'.fault = "none" /\ last_op'.received = FRAME_BYTES)
                    => /\ last_op'.ok
                       /\ frame_count' = frame_count + 1
                       /\ active' # EmptyBuffers
                       /\ active' = IF last_op'.store_as_weak THEN weak' ELSE std']_vars

\* In Alternating mode the only frame so far is a Weak one, stored by the
\* latest tick: the 'T' tick before it failed and the 'W' tick that followed
\* succeeded.
C16_Witness ==
    /\ excitation_mode = 2
    /\ last_op.name = "tick" /\ last_op.ok /\ last_op.command = "W"
    /\ frame_count = 1
    /\ std = EmptyBuffers /\ weak # EmptyBuffers

\* C17: connect() falls back to probing exactly when opening the configured
\* port fails; if the probe names a port and that port opens, the application
\* ends connected with the detected port persisted as serial_port; if the
\* probe finds nothing or the detected port cannot be opened, it ends
\* disconnected with serial_port unchanged; a successful direct connect
\* neither probes nor changes serial_port.
C17_ProbeFallback ==
    connect_op.called =>
        /\ connect_op.probing <=> (direct.configured = "open_fails")
        /\ (connect_op.probing /\ connect_op.detected # 0 /\ direct.detected # "open_fails")
             => (serial_open /\ serial_port = PortNames[connect_op.detected])
        /\ (connect_op.probing /\ (connect_op.detected = 0 \/ direct.detected = "open_fails"))
             => (~serial_open /\ serial_port = "COM4")
        /\ (direct.configured = "ok")
             => (serial_open /\ ~connect_op.probing /\ serial_port = "COM4")

\* The port opened, nothing raised, and it sent exactly 2016 bytes in time.
ReturnedExactly(kind) ==
    kind \notin {"open_fails", "io_fails"} /\ Sent(kind) = FRAME_BYTES

\* The port opened, nothing raised, and it sent at least 2016 bytes in time.
ReturnedAtLeast(kind) ==
    kind \notin {"open_fails", "io_fails"} /\ Sent(kind) >= FRAME_BYTES

\* C18 as stated: the probe reports a port only if that port returned exactly
\* 2016 bytes within 1.0 s of the command; it returns the first such port in
\* enumeration order and tries none after it, and returns none if no port
\* returned exactly 2016 bytes.
C18_ExactlyFrameBytes ==
    connect_op.probing =>
        /\ connect_op.detected # 0 =>
              /\ ReturnedExactly(ports[connect_op.detected])
              /\ \A j \in 1..(connect_op.detected - 1) : ~ReturnedExactly(ports[j])
              /\ connect_op.probed = [i \in 1..connect_op.detected |-> i]
        /\ connect_op.detected = 0 =>
              /\ \A j \in 1..Len(ports) : ~ReturnedExactly(ports[j])
              /\ connect_op.probed = [i \in 1..Len(ports) |-> i]

\* C18 as amended: the probe reports a port only if at least 2016 bytes of
\* that port arrived within 1.0 s of the command (it reads 2016 of them); it
\* returns the first such port in enumeration order and tries none after it,
\* it passes over every port that raises or sends fewer bytes in time, and
\* returns none, having tried all ports, if no port qualifies.
C18_AtLeastFrameBytes ==
    connect_op.probing =>
        /\ connect_op.detected # 0 =>
              /\ ReturnedAtLeast(ports[connect_op.detected])
              /\ Collected(ports[connect_op.detected]) = FRAME_BYTES
              /\ \A j \in 1..(connect_op.detected - 1) : ~ReturnedAtLeast(ports[j])
              /\ connect_op.probed = [i \in 1..connect_op.detected |-> i]
        /\ connect_op.detected = 0 =>
              /\ \A j \in 1..Len(ports) : ~ReturnedAtLeast(ports[j])
              /\ connect_op.probed = [i \in 1..Len(ports) |-> i]

\* The probe passed over a port that sent 2015 bytes, reported the next one,
\* which sent 4032, and did not try the device after it.
C18_Witness ==
    /\ connect_op.probing
    /\ ports = <<"short", "chatty", "device">>
    /\ connect_op.detected = 2
    /\ connect_op.probed = <<1, 2>>

\* The zoom fit_to_window computes for an axis is at least 0.1 for every
\* span 12-bit samples allow: 0..4095 for the voltages, 0..8190 for the
\* currents.
FitZoomFloor ==
    /\ \A span \in 0..4095 :
          ~FracLess(FitZoom(0, span, FracSub(base_x_max, base_x_min)), <<1, 10>>)
    /\ \A span \in 0..8190 :
          ~FracLess(FitZoom(-4095, span - 4095, FracSub(base_y_max, base_y_min)), <<1, 10>>)

\* C19: zoom_level >= 0.1 in every reachable state, under scroll steps,
\* fit-to-window, reset-view, mode changes and acquisitions, among them
\* those of the widest traces 12-bit samples allow; and fit-to-window
\* computes no zoom below 0.1 for any 12-bit data.
C19_ZoomFloor == FitZoomFloor /\ ~FracLess(zoom_level, <<1, 10>>)

\* The view was fitted to data and then scrolled down onto the floor.
C19_Witness ==
    /\ zoom_level = <<1, 10>>
    /\ pan_offset_x # <<0, 1>>
    /\ active # EmptyBuffers
    /\ last_op.name = "input"

FracLeq(p, q) == ~FracLess(q, p)
Inside(inner, outer) == FracLeq(outer.lo, inner.lo) /\ FracLeq(inner.hi, outer.hi)
Width(box) == FracSub(box.hi, box.lo)

\* C20: a fit-to-window with data present leaves zoom_level <= 1.0 and a
\* fixed-scale viewport (from the new zoom_level and pan offsets) that
\* contains the bounding box of the drawn traces enlarged by 20% of its span
\* on each side; the zoom is the smaller of the X fit and the Y fit of both
\* channels, capped at 1.0: it is 1.0 or makes the viewport exactly as wide,
\* or exactly as high, as the enlarged box.
C20_FitContainsData ==
    [][(last_op'.name = "fit" /\ ~settings_active /\ ~auto_scale
        /\ active.ch1 # << >> /\ active.ch2 # << >>)
        => LET vx == Visible(base_x_min, base_x_max, zoom_level', pan_offset_x')
               vy == Visible(base_y_min, base_y_max, zoom_level', pan_offset_y')
               drawn == DrawnBoxTable[<<excitation_mode, std, weak, active, single_channel>>]
               both == DrawnBoxTable[<<excitation_mode, std, weak, active, FALSE>>]
           IN  /\ FracLeq(zoom_level', <<1, 1>>)
               /\ Inside(drawn.x, vx)
               /\ Inside(drawn.y, vy)
               /\ Inside(both.x, vx)
               /\ Inside(both.y, vy)
               /\ \/ zoom_level' = <<1, 1>>
                  \/ Width(vx) = Width(both.x)
                  \/ Width(vy) = Width(both.y)]_vars

\* The view has been fitted, with a zoom below 1.0, to both variants in
\* Alternating mode while channel 2 is hidden.
C20_Witness ==
    /\ last_op.name = "fit"
    /\ FracLess(zoom_level, <<1, 1>>)
    /\ pan_offset_x # <<0, 1>>
    /\ excitation_mode = 2
    /\ std # EmptyBuffers /\ weak # EmptyBuffers /\ std # weak
    /\ single_channel

\* The view reset_view leaves.
DefaultView == <<(<<1, 1>>), (<<0, 1>>), (<<0, 1>>)>>

\* C21: reset-view sets the view to exactly zoom 1.0 and pan (0, 0) from any
\* prior state, in particular right after a fit-to-window and whatever data
\* is stored, and a second reset-view changes nothing.
C21_ResetViewExact ==
    /\ [](LET once == ResetView(zoom_level, pan_offset_x, pan_offset_y)
          IN  ResetView(once.zoom, once.pan_x, once.pan_y) = once)
    /\ [][(last_op'.name = "reset" /\ ~settings_active /\ ~auto_scale) => view' = DefaultView]_vars
    /\ [][(last_op.name = "fit" /\ last_op'.name = "reset") => view' = DefaultView]_vars
    /\ [][(last_op.name = "reset" /\ last_op'.name = "reset") => view' = view]_vars

\* Reset-view has acted on the view of both variants of the widest traces in
\* Alternating mode.
C21_Witness ==
    /\ last_op.name = "reset"
    /\ view = DefaultView
    /\ excitation_mode = 2
    /\ std # EmptyBuffers /\ weak # EmptyBuffers /\ std # weak

\* C22 as stated: with an empty active series both fit-to-window and
\* reset-view leave zoom_level, pan_offset_x and pan_offset_y as they were.
C22_BothNoOpsWithoutData ==
    [][(active = EmptyBuffers /\ last_op'.name \in {"fit", "reset"}) => view' = view]_vars

\* C22 amended: with an empty active series fit-to-window leaves zoom_level,
\* pan_offset_x and pan_offset_y as they were, while reset-view sets them to
\* 1.0 and (0, 0) as it does with data.
C22_FitNoOpWithoutData ==
    /\ [][(active = EmptyBuffers /\ last_op'.name = "fit") => view' = view]_vars
    /\ [][(active = EmptyBuffers /\ last_op'.name = "reset" /\ ~settings_active /\ ~auto_scale)
            => view' = DefaultView]_vars

\* Fit-to-window has acted without data on a zoom other than 1.0.
C22_Witness ==
    /\ last_op.name = "fit"
    /\ active = EmptyBuffers
    /\ zoom_level # <<1, 1>>

\* The file held a table and load_config has merged it.
Merged == last_op.name = "load_config" /\ IsDict(config_file)

\* Keys the file leaves out keep their defaults, at the top level and inside
\* a table that is merged.
MissingKeepDefaults ==
    Merged =>
        /\ \A k \in DOMAIN DEFAULT_CONFIG \ DOMAIN config_file[2] : config[k] = DEFAULT_CONFIG[k]
        /\ \A k \in DOMAIN DEFAULT_CONFIG \cap DOMAIN config_file[2] :
              (IsDict(DEFAULT_CONFIG[k]) /\ IsDict(config_file[2][k])) =>
                  /\ IsDict(config[k])
                  /\ \A n \in DOMAIN DEFAULT_CONFIG[k][2] \ DOMAIN config_file[2][k][2] :
                        /\ n \in DOMAIN config[k][2]
                        /\ config[k][2][n] = DEFAULT_CONFIG[k][2][n]

\* Tables are merged key by key: a key of a saved table that meets a default
\* table has its saved value in the merged table.
NestedMerged ==
    Merged =>
        \A k \in DOMAIN DEFAULT_CONFIG \cap DOMAIN config_file[2] :
            (IsDict(DEFAULT_CONFIG[k]) /\ IsDict(config_file[2][k])) =>
                \A n \in DOMAIN DEFAULT_CONFIG[k][2] \cap DOMAIN config_file[2][k][2] :
                    config[k][2][n] = config_file[2][k][2][n]

\* C26 as stated: after loading, keys unknown to the defaults are absent from
\* the configuration (at the top level and in nested tables), keys missing
\* from the file keep their defaults, and nested tables are merged key by key.
C26_UnknownKeysIgnored ==
    /\ DOMAIN config \subseteq DOMAIN DEFAULT_CONFIG
    /\ \A k \in DOMAIN DEFAULT_CONFIG :
          (IsDict(DEFAULT_CONFIG[k]) /\ IsDict(config[k]))
              => DOMAIN config[k][2] \subseteq DOMAIN DEFAULT_CONFIG[k][2]
    /\ MissingKeepDefaults
    /\ NestedMerged

\* C26 amended: after loading, the configuration has the keys of the defaults
\* and of the file; a key unknown to the defaults is kept with its saved
\* value, at the top level and inside a merged table; keys missing from the
\* file keep their defaults; where default and saved value are both tables
\* they are merged key by key, and otherwise the saved value replaces the
\* default.  A file that is absent, does not parse or holds no table leaves
\* the defaults.
C26_UnknownKeysKept ==
    /\ MissingKeepDefaults
    /\ NestedMerged
    /\ Merged =>
          /\ DOMAIN config = DOMAIN DEFAULT_CONFIG \cup DOMAIN config_file[2]
          /\ \A k \in DOMAIN config_file[2] :
                IF k \in DOMAIN DEFAULT_CONFIG /\ IsDict(DEFAULT_CONFIG[k]) /\ IsDict(config_file[2][k])
                THEN /\ DOMAIN config[k][2] = DOMAIN DEFAULT_CONFIG[k][2] \cup DOMAIN config_file[2][k][2]
                     /\ \A n \in DOMAIN config_file[2][k][2] : config[k][2][n] = config_file[2][k][2][n]
                ELSE config[k] = config_file[2][k]
    /\ (last_op.name = "load_config" /\ ~IsDict(config_file)) => config = DEFAULT_CONFIG

\* A file with an unknown key, a colour table that changes one colour and
\* adds an unknown one, and no serial port has been merged.
C26_Witness ==
    /\ Merged
    /\ DOMAIN config_file[2] = {"colors", "theme"}
    /\ IsDict(config_file[2]["colors"])
    /\ DOMAIN config_file[2]["colors"][2] = {"background", "glow"}
    /\ config["serial_port"] = <<"val", "COM4">>
    /\ config["colors"][2]["grid"] = <<"val", "grey">>
    /\ config["colors"][2]["background"] = <<"val", "white">>
    /\ "theme" \in DOMAIN config

\* C29: when connect() has run the probe, no port the probe opened is still
\* open: each was closed, also those whose write or read raised after the
\* open succeeded.
C29_ProbeClosesAll == (connect_op.called /\ connect_op.probing) => connect_op.left_open = {}

\* C27: dragging is true only while the left mouse button is held down,
\* whatever presses, releases, keys and settings show/hide events came
\* before: a release of the left button always leaves dragging false.
C27_DraggingOnlyWhileHeld == dragging => "left" \in buttons

\* The fields of the core the input handlers can reach.
core == <<serial_open, store, flags, excitation_mode, alt_use_weak, view, dragging>>

\* C28: while the settings surface is active no key, mouse press, drag or
\* scroll event changes the excitation mode, paused, single_channel,
\* auto_scale, dragging, zoom_level or the pan offsets, nor any other field
\* of the core; such an event can only close the settings surface.
C28_SettingsShieldCore ==
    [][settings_active =>
          /\ UNCHANGED <<excitation_mode, paused, single_channel, auto_scale, dragging,
                         zoom_level, pan_offset_x, pan_offset_y>>
          /\ UNCHANGED core]_vars

\* A drag event with the left button held arrived while the settings
\* surface was shown over a zoomed and panned view, and moved nothing.
C28_Witness ==
    /\ settings_active
    /\ last_op.name = "drag"
    /\ dragging
    /\ "left" \in buttons
    /\ zoom_level = <<6, 5>>
    /\ pan_offset_x # <<0, 1>>
    /\ drag_start_offset = <<pan_offset_x, pan_offset_y>>

\* C30: in every reachable state the colour picker is active only while the
\* settings surface is active, and editing_color is set exactly when the
\* picker is active; ESCAPE with the picker open closes the picker alone,
\* which takes its original colour back while the swatches stay as they
\* were, and ESCAPE with the picker closed closes the settings surface.
C30_SettingsPickerMachine ==
    /\ [](picker_active => settings_active)
    /\ []((editing_color # "none") <=> picker_active)
    /\ [][(last_op'.name = "escape" /\ picker_active) =>
             /\ ~picker_active'
             /\ settings_active'
             /\ editing_color' = "none"
             /\ picker_color' = original_color
             /\ swatches' = swatches]_vars
    /\ [][(last_op'.name = "escape" /\ ~picker_active) =>
             /\ settings_active
             /\ ~settings_active']_vars

\* ESCAPE has closed the picker after a slider had changed its colour: the
\* picker shows the original colour again and the settings surface is
\* still open.
C30_Witness ==
    /\ last_op.name = "escape"
    /\ settings_active
    /\ ~picker_active
    /\ picker_color = original_color
    /\ swatches["background"] = <<255, 0, 0>>
    /\ picker_color = <<255, 0, 0>>
    /\ colors["background"] = <<0, 0, 0>>

\* The min and max of the data draw_plot scales to, for the buffers the view
\* responses can leave.
ExtentTable ==
    [c \in (0..2) \X ViewBuffers \X ViewBuffers \X ViewBuffers |->
        [x |-> [lo |-> list_min(AllX(c[1], c[2], c[3], c[4])),
                hi |-> list_max(AllX(c[1], c[2], c[3], c[4]))],
         y |-> [lo |-> list_min(AllY(c[1], c[2], c[3], c[4])),
                hi |-> list_max(AllY(c[1], c[2], c[3], c[4]))]]] @@ << >>

\* An axis is the data's extent with pad added on both sides.
PaddedBy(axis, extent, pad) ==
    /\ axis.lo = FracSub(<<extent.lo, 1>>, pad)
    /\ axis.hi = FracAdd(<<extent.hi, 1>>, pad)

\* An axis of the auto-scale is wider than nothing and is the extent padded
\* by 10% of its span, or by 100 if the span is zero.
AxisPadded(axis, extent) ==
    /\ FracLess(axis.lo, axis.hi)
    /\ IF extent.hi > extent.lo
       THEN PaddedBy(axis, extent, Frac(extent.hi - extent.lo, 10))
       ELSE PaddedBy(axis, extent, <<100, 1>>)

\* For every extent 12-bit samples allow, the auto-scale axis has
\* x_max > x_min.
AutoAxisWide ==
    \A span \in 0..8190 :
        FracLess(AutoAxis(-4095, span - 4095).lo, AutoAxis(-4095, span - 4095).hi)

\* C23: with data present the auto-scale bounds are never degenerate: each
\* axis is the data's extent padded on both sides by 10% of its span, or by
\* 100 units when the span is zero, so x_max > x_min and y_max > y_min; the
\* all-2048 frame gives a window 200 units wide on both axes.
C23_AutoScalePadded ==
    /\ AutoAxisWide
    /\ (auto_scale /\ FitHasData(active)) =>
          LET bounds == PlotBounds(auto_scale, excitation_mode, std, weak, active,
                                   zoom_level, pan_offset_x, pan_offset_y)
              extent == ExtentTable[<<excitation_mode, std, weak, active>>]
          IN  /\ AxisPadded(bounds.x, extent.x)
              /\ AxisPadded(bounds.y, extent.y)
              /\ (extent.x.lo = extent.x.hi) => Width(bounds.x) = <<200, 1>>
              /\ (extent.y.lo = extent.y.hi) => Width(bounds.y) = <<200, 1>>

\* Auto-scale is on over the all-2048 frame: both axes are 200 units wide,
\* around 2048 and around 0.
C23_Witness ==
    /\ auto_scale
    /\ active = DecodeTable[FirstFrame]
    /\ excitation_mode = 0
    /\ AutoTable[<<excitation_mode, std, weak, active>>] =
           [x |-> [lo |-> <<1948, 1>>, hi |-> <<2148, 1>>],
            y |-> [lo |-> <<-100, 1>>, hi |-> <<100, 1>>]]

\* C24: while auto_scale is on, the bounds used for drawing are those of
\* the data and the mode whatever zoom_level and the pan offsets are, and no
\* step (scroll, drag, fit-window key, reset-view key, acquisition, mode
\* change) changes zoom_level, pan_offset_x or pan_offset_y.
C24_AutoScaleIgnoresView ==
    /\ []((auto_scale /\ FitHasData(active)) =>
            PlotBounds(auto_scale, excitation_mode, std, weak, active,
                       zoom_level, pan_offset_x, pan_offset_y)
              = PlotBounds(auto_scale, excitation_mode, std, weak, active,
                           <<1, 1>>, <<0, 1>>, <<0, 1>>))
    /\ [][auto_scale => UNCHANGED view]_vars

\* A drag event arrived with auto-scale on, the left button held since
\* before auto-scale was switched on, over data and a view that was zoomed
\* and panned before.
C24_Witness ==
    /\ auto_scale
    /\ last_op.name = "drag"
    /\ dragging
    /\ FitHasData(active)
    /\ zoom_level # <<1, 1>>
    /\ pan_offset_x # <<0, 1>>

\* C25: _draw_trace mirrors the X axis and not the Y axis: of two points of
\* a trace the one with the larger data X never has the larger pixel X and
\* the one with the larger data Y never has the smaller pixel Y; with
\* bounds that differ, x_min maps to the right edge x + w, x_max to the
\* left edge x, y_min to y and y_max to y + h; an axis whose bounds are
\* equal puts every point at the normalized position 0.5, the middle of the
\* plot area.
C25_MirrorsXNotY ==
    (last_op.name = "draw" /\ Len(draw_args.voltages) >= 2) =>
        LET a == draw_args
            r == draw_args.rect
        IN  /\ Len(points) = Len(a.voltages)
            /\ \A i \in 1..Len(a.voltages) : i \in DOMAIN points =>
                  /\ \A j \in DOMAIN points :
                        /\ a.voltages[i] > a.voltages[j] => points[i][1] <= points[j][1]
                        /\ a.currents[i] > a.currents[j] => points[i][2] >= points[j][2]
                  /\ (a.x_min # a.x_max /\ <<a.voltages[i], 1>> = a.x_min) => points[i][1] = r.x + r.width
                  /\ (a.x_min # a.x_max /\ <<a.voltages[i], 1>> = a.x_max) => points[i][1] = r.x
                  /\ (a.y_min # a.y_max /\ <<a.currents[i], 1>> = a.y_min) => points[i][2] = r.y
                  /\ (a.y_min # a.y_max /\ <<a.currents[i], 1>> = a.y_max) => points[i][2] = r.y + r.height
                  /\ a.x_min = a.x_max =>
                        /\ Normalized(a.voltages[i], a.x_min, a.x_max) = <<1, 2>>
                        /\ points[i][1] = Trunc(Frac(2 * r.x + r.width, 2))
                  /\ a.y_min = a.y_max =>
                        /\ Normalized(a.currents[i], a.y_min, a.y_max) = <<1, 2>>
                        /\ points[i][2] = Trunc(Frac(2 * r.y + r.height, 2))

\* A trace from (0, -100) to (ADC_MAX, 100) was drawn on the default plot
\* area with the bounds 0..ADC_MAX and -100..100: it runs from the bottom
\* right corner to the top left corner.
C25_Witness ==
    /\ last_op.name = "draw"
    /\ draw_args.voltages = <<0, ADC_MAX>>
    /\ draw_args.currents = <<-100, 100>>
    /\ draw_args.rect = PlotRect(WINDOW_SIZE, WINDOW_SIZE)
    /\ draw_args.x_min = base_x_min /\ draw_args.x_max = base_x_max
    /\ draw_args.y_min = <<-100, 1>> /\ draw_args.y_max = <<100, 1>>
    /\ points = <<<<1030, 100>>, <<108, 960>>>>

====
